---- MODULE Spec2Model ----
(***************************************************************************)
(* A model of the core of a2a-authentic-ai-debates:                        *)
(*   - the session state machine   (src/core/session_manager.py)           *)
(*   - the retry/backoff decorator (src/core/error_handler.py)             *)
(*   - the checkpoint store        (src/core/checkpoint_manager.py)        *)
(*   - the quality metrics         (src/core/quality_calculator.py)        *)
(*                                                                         *)
(* The session part models one SessionManager working on one discussions   *)
(* directory.  A session object carries the fields the operations read or  *)
(* write (session_id, status, turn_history, current_turn, max_turns); the  *)
(* fields that are only copied (topic, agent_name, metadata and the        *)
(* datetime.now() stamps) take no part in any branch of the session code   *)
(* and are left out of its records.                                        *)
(*                                                                         *)
(* The checkpoint part models one CheckpointManager working on one         *)
(* checkpoint directory with its four subdirectories.  The sessions handed *)
(* to it carry their participants as well, because SessionCheckpoint's     *)
(* validate reads them.  Identifiers and file names are sequences of       *)
(* characters, so that the substring tests of the code are computed, and a *)
(* directory listing is any order of the files of the subdirectory.        *)
(*                                                                         *)
(* The task part runs the calls of two sessions step by step on one        *)
(* SessionManager and one CheckpointManager, and on one session with the   *)
(* process dying between two steps.  The quality part hands a session,     *)
(* built turn by turn, to the QualityCalculator; its scores are in         *)
(* thousandths.                                                            *)
(*                                                                         *)
(* Three more parts follow the session code where it is not alone: a save  *)
(* that raises OSError inside add_turn, two threads in add_turn on one     *)
(* session, statement by statement, and the loop of run_integrated_demo    *)
(* (src/demos/integrated_quality_demo.py) with generate_response of        *)
(* src/agents/base_agent.py.                                               *)
(***************************************************************************)
EXTENDS Integers, Sequences, FiniteSets, TLC

(***************************************************************************)
(* Bounds of the model.                                                    *)
(***************************************************************************)
MaxSessions == 1          \* number of session ids uuid4() may hand out
MaxTurns    == 2          \* largest max_turns passed to create_session
MaxAttempts == 3          \* largest RetryConfig.max_attempts
MaxBackoffCalls == 4      \* largest attempt number given to calculate_backoff_delay
MaxCheckpoints == 2       \* number of checkpoint ids uuid4() may hand out
MaxQualityTurns == 4      \* number of turns of a session handed to the QualityCalculator
MaxSnapshots == 1         \* number of checkpoints made of the session as it grows

SessionIds == 1..MaxSessions
MaxTurnsArgs == 0..MaxTurns
Agents == {"A", "B"}
Messages == {"alpha"}
ResponseTimes == {0}

VARIABLES
    active_sessions,   \* SessionManager.active_sessions: session_id -> DebateSession
    files,             \* the discussions directory: [sessions, completed], each id -> file
    last,              \* the last call: operation, id given, was it registered, outcome
    result,            \* the object the last call handed back or worked on: <<>> or <<session>>
    hist               \* history, per session id: the turns accepted, completion, load after it,
                       \* whether the manager holds it from a load_session of its file

svars == <<active_sessions, files, last, result, hist>>

VARIABLES
    wrapper,           \* what retry_with_backoff was given: [config, on_retry]
    pc,                \* where the running wrapper call stands
    attempt,           \* the loop variable of the wrapper
    last_exception,    \* the wrapper's last_exception: <<>> (None) or <<e>>
    log,               \* what the call has done so far: calls, failures, on_retry, sleeps
    outcome            \* how the call ended: <<>> while it runs, else <<[kind, value, exc]>>

rvars == <<wrapper, pc, attempt, last_exception, log, outcome>>

VARIABLES
    schedule           \* a RetryConfig and the delays computed from it for n = 1, 2, ...

bvars == <<schedule>>

VARIABLES
    decorated,         \* the closure of a decorated function: the config shared by its calls
    invocations        \* the locals of each running call of that function

ivars == <<decorated, invocations>>

VARIABLES
    checkpoint_dir,    \* the checkpoint directory: subdirectory -> file name -> file
    clock,             \* the last reading of the system clock
    uuids,             \* how many ids uuid4() has handed out to the checkpoint manager
    ck_last,           \* the last call of the checkpoint manager: operation, arguments, outcome
    persisted          \* history: the checkpoints create_checkpoint returned, in that order

cvars == <<checkpoint_dir, clock, uuids, ck_last, persisted>>

VARIABLES
    tasks,             \* per session id: the call its task is in, where it stands, its locals
    alone              \* per session id: what the calls of its task give when run on their own

tvars == <<tasks, alone>>

VARIABLES
    quality            \* a session handed to the QualityCalculator, the metrics of its turns
                       \* and the report on it

qvars == <<quality>>

VARIABLES
    threaded,          \* one DebateSession object and the add_turn calls of two threads on it:
                       \* the object, its registry entry, the files, each thread's position
    debate             \* run_integrated_demo: the loop index, each agent's conversation_history,
                       \* the orchestrator's session and the checkpoint calls of the last turn

ovars == <<threaded, debate>>

\* the state of the components that neither SessionManager nor the wrapper touches
xvars == <<bvars, ivars, cvars, tvars, qvars, ovars>>

vars == <<active_sessions, files, last, result, hist,
          wrapper, pc, attempt, last_exception, log, outcome, xvars>>

(***************************************************************************)
(* SessionStatus: member names in memory, member values in the files.      *)
(***************************************************************************)
SessionStatus == {"PENDING", "ACTIVE", "COMPLETED", "PAUSED", "ERROR"}

StatusValue(st) ==
    CASE st = "PENDING"   -> "pending"
      [] st = "ACTIVE"    -> "active"
      [] st = "COMPLETED" -> "completed"
      [] st = "PAUSED"    -> "paused"
      [] st = "ERROR"     -> "error"

StatusValues == {StatusValue(st) : st \in SessionStatus}

\* SessionStatus(value): the member whose value it is (the caller checks that there is one)
StatusOfValue(v) == CHOOSE st \in SessionStatus : StatusValue(st) = v

(***************************************************************************)
(* Finite maps (dict, directory).                                          *)
(***************************************************************************)
EmptyMap == [x \in {} |-> 0]
Put(m, k, v) == [x \in (DOMAIN m) \cup {k} |-> IF x = k THEN v ELSE m[x]]
Del(m, k) == [x \in (DOMAIN m) \ {k} |-> m[x]]

(***************************************************************************)
(* dataclasses.asdict + json.dump.  A file is [kind, doc]: kind "object"   *)
(* for a JSON object (doc maps its keys), "list" for JSON that is no       *)
(* object, "text" for bytes that are no JSON.                              *)
(***************************************************************************)
TurnDict(turn) ==
    [turn_number   |-> turn.turn_number,
     agent_id      |-> turn.agent_id,
     message       |-> turn.message,
     response_time |-> turn.response_time]

SessionDict(session) ==
    [session_id   |-> session.session_id,
     status       |-> StatusValue(session.status),
     turn_history |-> [i \in 1..Len(session.turn_history) |->
                          TurnDict(session.turn_history[i])],
     current_turn |-> session.current_turn,
     max_turns    |-> session.max_turns]

(***************************************************************************)
(* save_session: the file goes to completed/ when the status is COMPLETED, *)
(* to sessions/ otherwise; open(..., 'w') replaces what is there.          *)
(***************************************************************************)
SaveDir(session) ==
    IF session.status = "COMPLETED" THEN "completed" ELSE "sessions"

JsonFile(doc) == [kind |-> "object", doc |-> doc]

save_session(fs, session) ==
    [fs EXCEPT ![SaveDir(session)] =
                  Put(@, session.session_id, JsonFile(SessionDict(session)))]

(***************************************************************************)
(* complete_session on a manager state m = [active, fs, trans]: trans is   *)
(* the list of the status assignments that changed the status, as          *)
(* <<session_id, from, to>>.                                               *)
(***************************************************************************)
SetStatus(m, id, st) ==
    [m EXCEPT !.active[id].status = st,
              !.trans = IF m.active[id].status = st THEN @
                        ELSE Append(@, <<id, m.active[id].status, st>>)]

complete_session_on_keeps_live_file(m, id) ==
    IF id \notin DOMAIN m.active THEN m
    ELSE LET m1 == SetStatus(m, id, "COMPLETED")
         IN  [m1 EXCEPT !.fs = save_session(@, m1.active[id]), !.active = Del(@, id)]

complete_session_on(m, id) ==
    IF id \notin DOMAIN m.active THEN m
    ELSE LET m1 == SetStatus(m, id, "COMPLETED")
             fs1 == [m1.fs EXCEPT !.sessions = Del(@, id)]
             fs2 == save_session(fs1, m1.active[id])
         IN  [m1 EXCEPT !.fs = fs2, !.active = Del(@, id)]

(***************************************************************************)
(* create_session: a fresh uuid4, status PENDING, no turns; registered and *)
(* saved.                                                                  *)
(***************************************************************************)
NewSession(id, max_turns) ==
    [session_id   |-> id,
     status       |-> "PENDING",
     turn_history |-> <<>>,
     current_turn |-> 0,
     max_turns    |-> max_turns]

(***************************************************************************)
(* add_turn, on a manager state m = [active, fs, trans].  The value is     *)
(* [m, ret, session]: the manager state after the call, the boolean        *)
(* returned and the session object the call worked on (<<>> if none).      *)
(***************************************************************************)
AcceptsTurns_unless_completed(session) == session.status # "COMPLETED"

AcceptsTurns(session) == session.status \in {"ACTIVE", "PENDING"}

NextTurnNumber_zero_based(session) == session.current_turn

NextTurnNumber(session) == session.current_turn + 1

NewTurn(session, agent_id, message, response_time) ==
    [turn_number   |-> NextTurnNumber(session),
     agent_id      |-> agent_id,
     message       |-> message,
     response_time |-> response_time]

AppendTurn(session, turn) ==
    [session EXCEPT !.turn_history = Append(@, turn),
                    !.current_turn = @ + 1]

BudgetReached_late(session) == session.current_turn > session.max_turns

BudgetReached(session) == session.current_turn >= session.max_turns

add_turn_on(m, id, agent_id, message, response_time) ==
    IF id \notin DOMAIN m.active
    THEN [m |-> m, ret |-> FALSE, session |-> <<>>]
    ELSE IF ~AcceptsTurns(m.active[id])
    THEN [m |-> m, ret |-> FALSE, session |-> <<m.active[id]>>]
    ELSE
      LET m1 == IF m.active[id].status # "ACTIVE" THEN SetStatus(m, id, "ACTIVE") ELSE m
          turn == NewTurn(m1.active[id], agent_id, message, response_time)
          m2 == [m1 EXCEPT !.active[id] = AppendTurn(@, turn)]
      IN  IF BudgetReached(m2.active[id])
          THEN LET m3 == SetStatus(m2, id, "COMPLETED")
                   session == m3.active[id]
                   m4 == complete_session_on(m3, id)
               IN  [m |-> [m4 EXCEPT !.fs = save_session(@, session)],
                    ret |-> TRUE, session |-> <<session>>]
          ELSE [m |-> [m2 EXCEPT !.fs = save_session(@, m2.active[id])],
                ret |-> TRUE, session |-> <<m2.active[id]>>]

(***************************************************************************)
(* load_session.  ParseSession is the try block: json.load, the status     *)
(* enum, the DiscussionTurn of each turn dict, the DebateSession of data.   *)
(* A dataclass constructor raises TypeError for a keyword it does not know *)
(* and for a field without default that is not given.  The value is        *)
(* [exc, session]: the exception raised ("none" if none) and <<session>>.  *)
(***************************************************************************)
DefaultResponseTime == 0
DefaultCurrentTurn  == 0
DefaultMaxTurns     == 10

TurnRequired    == {"turn_number", "agent_id", "message"}
TurnFields      == TurnRequired \cup {"response_time"}
SessionRequired == {"session_id", "status", "turn_history"}
SessionFields   == SessionRequired \cup {"current_turn", "max_turns"}

ConstructorAccepts(keys, required, fields) ==
    required \subseteq keys /\ keys \subseteq fields

Get(d, k, default) == IF k \in DOMAIN d THEN d[k] ELSE default

TurnOfDict(d) ==
    [turn_number   |-> d.turn_number,
     agent_id      |-> d.agent_id,
     message       |-> d.message,
     response_time |-> Get(d, "response_time", DefaultResponseTime)]

TurnsOfDicts_none(turn_history) == <<>>

TurnsOfDicts(turn_history) ==
    [i \in 1..Len(turn_history) |-> TurnOfDict(turn_history[i])]

SessionOfDict_drops_counter(d) ==
    [session_id   |-> d.session_id,
     status       |-> StatusOfValue(d.status),
     turn_history |-> TurnsOfDicts(d.turn_history),
     current_turn |-> DefaultCurrentTurn,
     max_turns    |-> Get(d, "max_turns", DefaultMaxTurns)]

SessionOfDict(d) ==
    [session_id   |-> d.session_id,
     status       |-> StatusOfValue(d.status),
     turn_history |-> TurnsOfDicts(d.turn_history),
     current_turn |-> Get(d, "current_turn", DefaultCurrentTurn),
     max_turns    |-> Get(d, "max_turns", DefaultMaxTurns)]

Raised(exc) == [exc |-> exc, session |-> <<>>]

ParseSession(file) ==
    IF file.kind = "text" THEN Raised("JSONDecodeError")
    ELSE IF file.kind # "object" THEN Raised("TypeError")
    ELSE LET d == file.doc IN
      IF "status" \notin DOMAIN d THEN Raised("KeyError")
      ELSE IF d.status \notin StatusValues THEN Raised("ValueError")
      ELSE IF "turn_history" \notin DOMAIN d THEN Raised("KeyError")
      ELSE IF \E i \in 1..Len(d.turn_history) :
                 ~ConstructorAccepts(DOMAIN d.turn_history[i], TurnRequired, TurnFields)
           THEN Raised("TypeError")
      ELSE IF ~ConstructorAccepts(DOMAIN d, SessionRequired, SessionFields)
           THEN Raised("TypeError")
      ELSE [exc |-> "none", session |-> <<SessionOfDict(d)>>]

CaughtByLoad == {"JSONDecodeError", "KeyError", "ValueError"}

RegistersOnLoad_whatever_status(session) == TRUE

RegistersOnLoad(session) == session.status \in {"ACTIVE", "PENDING"}

\* [m, ret, session]: ret is "session", "None" or the name of the exception that escapes
load_session_on(m, id) ==
    IF id \notin DOMAIN m.fs.sessions /\ id \notin DOMAIN m.fs.completed
    THEN [m |-> m, ret |-> "None", session |-> <<>>]
    ELSE
      LET file == IF id \in DOMAIN m.fs.sessions THEN m.fs.sessions[id]
                  ELSE m.fs.completed[id]
          p == ParseSession(file)
      IN  IF p.exc \in CaughtByLoad THEN [m |-> m, ret |-> "None", session |-> <<>>]
          ELSE IF p.exc # "none" THEN [m |-> m, ret |-> p.exc, session |-> <<>>]
          ELSE LET session == p.session[1]
                   changed == id \in DOMAIN m.active /\ m.active[id].status # session.status
                   m1 == IF RegistersOnLoad(session)
                         THEN [m EXCEPT !.active = Put(@, id, session),
                                        !.trans = IF changed
                                                  THEN Append(@, <<id, m.active[id].status,
                                                                   session.status>>)
                                                  ELSE @]
                         ELSE m
               IN  [m |-> m1, ret |-> "session", session |-> <<session>>]

(***************************************************************************)
(* RetryConfig and calculate_backoff_delay.  Delays are in milliseconds;   *)
(* the jitter factor 0.5 + random() * 0.5 lies in [0.5, 1.0) and is drawn  *)
(* in thousandths.                                                         *)
(***************************************************************************)
DefaultConfig ==
    [max_attempts |-> 3, initial_delay |-> 1000, max_delay |-> 60000,
     exponential_base |-> 2, jitter |-> TRUE]

MaxAttemptsArgs == 0..MaxAttempts
InitialDelays == {1000}
MaxDelays == {3000}
ExponentialBases == {2}
JitterFactors == {500, 750, 999}

Configs ==
    [max_attempts : MaxAttemptsArgs, initial_delay : InitialDelays,
     max_delay : MaxDelays, exponential_base : ExponentialBases, jitter : BOOLEAN]

RECURSIVE Pow(_, _)
Pow(b, n) == IF n = 0 THEN 1 ELSE b * Pow(b, n - 1)

Min(a, b) == IF a <= b THEN a ELSE b

calculate_backoff_delay_uncapped(n, config, factor) ==
    LET delay == config.initial_delay * Pow(config.exponential_base, n - 1)
    IN  IF config.jitter THEN (delay * factor) \div 1000 ELSE delay

calculate_backoff_delay(n, config, factor) ==
    LET delay == Min(config.initial_delay * Pow(config.exponential_base, n - 1),
                     config.max_delay)
    IN  IF config.jitter THEN (delay * factor) \div 1000 ELSE delay

(***************************************************************************)
(* The wrapped operation and the observer, as the wrapper sees them: each  *)
(* call returns or raises.  An exception is [type, at]: its class and the  *)
(* attempt that raised it.  exceptions = (TimeoutError, ConnectionError)   *)
(* are the kinds the wrapper retries.                                      *)
(***************************************************************************)
Listed == {"TimeoutError", "ConnectionError"}
ErrorTypes == Listed \cup {"KeyError"}
Values == {"text"}

NoExc == [type |-> "", at |-> 0]

IsListed_any_exception(e) == TRUE

IsListed(e) == e.type \in Listed

Event(ev, n, exc, delay) == [ev |-> ev, n |-> n, exc |-> exc, delay |-> delay]

Ended(kind, value, exc) == <<[kind |-> kind, value |-> value, exc |-> exc]>>

(***************************************************************************)
(* The state after construction: SessionManager.__init__ on an empty       *)
(* discussions directory.                                                  *)
(***************************************************************************)
NoHist == [created |-> FALSE, accepted |-> <<>>, completed |-> FALSE,
           loaded_after |-> FALSE, resumed |-> FALSE]

InitManager ==
    /\ active_sessions = EmptyMap
    /\ files = [sessions |-> EmptyMap, completed |-> EmptyMap]
    /\ last = [op |-> "init", id |-> 0, known |-> FALSE, ret |-> "none", trans |-> <<>>]
    /\ result = <<>>
    /\ hist = [id \in SessionIds |-> NoHist]

InitWrapper ==
    /\ wrapper = [config |-> DefaultConfig, on_retry |-> FALSE]
    /\ pc = "idle"
    /\ attempt = 0
    /\ last_exception = <<>>
    /\ log = <<>>
    /\ outcome = <<>>

InitSchedule == schedule = [config |-> DefaultConfig, delays |-> <<>>]

Invocations == {"first", "second"}

NotInvoked == [pc |-> "idle", attempt |-> 0, calls |-> <<>>, outcome |-> "none"]

InitInvocations ==
    /\ decorated = [config |-> DefaultConfig]
    /\ invocations = [i \in Invocations |-> NotInvoked]

InitCheckpoints ==
    /\ checkpoint_dir = [automatic |-> EmptyMap, manual |-> EmptyMap,
                         scheduled |-> EmptyMap, emergency |-> EmptyMap]
    /\ clock = 0
    /\ uuids = 0
    /\ ck_last = [op |-> "init", args |-> EmptyMap, exc |-> "none", ret |-> <<>>]
    /\ persisted = <<>>

\* two sessions, each worked on by a task of its own
TaskIds == {1, 2}

NotCalled == [pc |-> "idle", op |-> "none", arg |-> "", session |-> <<>>,
              ret |-> "none", created |-> FALSE]

EmptyDir == [automatic |-> EmptyMap, manual |-> EmptyMap,
             scheduled |-> EmptyMap, emergency |-> EmptyMap]

NotRun == [active |-> EmptyMap, fs |-> [sessions |-> EmptyMap, completed |-> EmptyMap],
           dir |-> EmptyDir, ret |-> "none"]

InitTasks ==
    /\ tasks = [id \in TaskIds |-> NotCalled]
    /\ alone = [id \in TaskIds |-> NotRun]

\* the session the quality calculator is given: created, no turn yet
NoTopic == <<>>

UnderReview(topic) ==
    [session |-> NewSession(1, DefaultMaxTurns) @@ [topic |-> topic], metrics |-> <<>>,
     report |-> <<>>]

InitQuality == quality = UnderReview(NoTopic)

\* the two threads, named by the agent_id they pass to add_turn
Threads == Agents

Idle == [pc |-> "idle", turn_number |-> 0, read |-> 0, ret |-> "none"]

InitThreaded ==
    threaded = [session |-> <<>>, registered |-> FALSE,
                fs |-> [sessions |-> EmptyMap, completed |-> EmptyMap],
                local |-> [t \in Threads |-> Idle]]

\* run_integrated_demo before create_session
InitDebate ==
    debate = [turn |-> 0, pc |-> "create_session", outcome |-> "none", session |-> <<>>,
              conversation_history |-> [agent \in Agents |-> <<>>], calls |-> <<>>]

InitOrchestration == InitThreaded /\ InitDebate

Init ==
    /\ InitManager
    /\ InitWrapper
    /\ InitSchedule
    /\ InitInvocations
    /\ InitCheckpoints
    /\ InitTasks
    /\ InitOrchestration
    /\ InitQuality

Manager == [active |-> active_sessions, fs |-> files, trans |-> <<>>]

Called(op, id, ret, m, session) ==
    /\ active_sessions' = m.active
    /\ files' = m.fs
    /\ last' = [op |-> op, id |-> id, known |-> id \in DOMAIN active_sessions,
                ret |-> ret, trans |-> m.trans]
    /\ result' = session
    /\ UNCHANGED <<rvars, xvars>>

(***************************************************************************)
(* The operations of SessionManager, one action per call.                  *)
(***************************************************************************)
create_session(max_turns) ==
    \E id \in SessionIds :
        /\ ~hist[id].created                      \* str(uuid.uuid4()) is fresh
        /\ LET session == NewSession(id, max_turns)
               m == [Manager EXCEPT !.active = Put(@, id, session),
                                    !.fs = save_session(@, session)]
           IN  Called("create_session", id, "session", m, <<session>>)
        /\ hist' = [hist EXCEPT ![id].created = TRUE]

add_turn(id, agent_id, message, response_time) ==
    LET r == add_turn_on(Manager, id, agent_id, message, response_time)
    IN  /\ Called("add_turn", id, IF r.ret THEN "True" ELSE "False", r.m, r.session)
        /\ hist' = IF r.ret
                   THEN LET session == r.session[1]
                        IN  [hist EXCEPT
                               ![id].accepted =
                                   Append(@, session.turn_history[Len(session.turn_history)]),
                               ![id].completed = @ \/ session.status = "COMPLETED"]
                   ELSE hist

complete_session(id) ==
    LET known == id \in DOMAIN active_sessions
        m == complete_session_on(Manager, id)
    IN  /\ Called("complete_session", id, IF known THEN "True" ELSE "False", m,
                  IF known THEN <<[active_sessions[id] EXCEPT !.status = "COMPLETED"]>>
                  ELSE <<>>)
        /\ hist' = [hist EXCEPT ![id].completed = @ \/ known]

load_session(id) ==
    LET r == load_session_on(Manager, id)
    IN  /\ Called("load_session", id, r.ret, r.m, r.session)
        /\ hist' = [hist EXCEPT ![id].loaded_after = @ \/ hist[id].completed,
                                ![id].resumed = @ \/ (id \notin DOMAIN active_sessions
                                                          /\ id \in DOMAIN r.m.active)]

\* a new SessionManager on the same discussions directory (the process restarted)
new_manager ==
    /\ active_sessions # EmptyMap
    /\ Called("new_manager", 0, "none", [Manager EXCEPT !.active = EmptyMap], <<>>)
    /\ hist' = [id \in SessionIds |-> [hist[id] EXCEPT !.resumed = FALSE]]

\* the owner of a running session parks it: status PAUSED or ERROR, then save_session
set_status(id, st) ==
    /\ id \in DOMAIN active_sessions
    /\ active_sessions[id].status = "ACTIVE"
    /\ LET m1 == SetStatus(Manager, id, st)
           m == [m1 EXCEPT !.fs = save_session(@, m1.active[id])]
       IN  Called("set_status", id, "none", m, <<m.active[id]>>)
    /\ UNCHANGED hist

Next ==
    \/ \E max_turns \in MaxTurnsArgs : create_session(max_turns)
    \/ \E id \in SessionIds, agent_id \in Agents, message \in Messages,
          response_time \in ResponseTimes :
          add_turn(id, agent_id, message, response_time)
    \/ \E id \in SessionIds : complete_session(id)
    \/ \E id \in SessionIds : load_session(id)
    \/ new_manager
    \/ \E id \in SessionIds, st \in {"PAUSED", "ERROR"} : set_status(id, st)

Spec == Init /\ [][Next]_vars

(***************************************************************************)
(* The stored record as load_session may find it: a file of the            *)
(* discussions directory that something other than save_session wrote or   *)
(* cut short.  damage turns an intact file into one bad record.            *)
(***************************************************************************)
Damages == {"not_json", "json_list", "no_status", "bad_status", "no_turn_history",
            "no_session_id", "extra_field", "turn_no_agent_id", "turn_extra_field"}

Intact(file) == ParseSession(file).exc = "none"

DamagedFile(file, how) ==
    CASE how = "not_json"  -> [kind |-> "text", doc |-> EmptyMap]
      [] how = "json_list" -> [kind |-> "list", doc |-> EmptyMap]
      [] how = "no_status" -> JsonFile(Del(file.doc, "status"))
      [] how = "bad_status" -> JsonFile([file.doc EXCEPT !.status = "archived"])
      [] how = "no_turn_history" -> JsonFile(Del(file.doc, "turn_history"))
      [] how = "no_session_id" -> JsonFile(Del(file.doc, "session_id"))
      [] how = "extra_field" -> JsonFile(Put(file.doc, "owner", "x"))
      [] how = "turn_no_agent_id" ->
             JsonFile([file.doc EXCEPT !.turn_history[1] = Del(@, "agent_id")])
      [] how = "turn_extra_field" ->
             JsonFile([file.doc EXCEPT !.turn_history[1] = Put(@, "score", 0)])

damage(id, dir, how) ==
    /\ id \in DOMAIN files[dir]
    /\ Intact(files[dir][id])
    /\ how \in {"turn_no_agent_id", "turn_extra_field"}
          => Len(files[dir][id].doc.turn_history) > 0
    /\ Called("damage", id, how,
              [Manager EXCEPT !.fs[dir][id] = DamagedFile(@, how)], <<>>)
    /\ UNCHANGED hist

NextStore ==
    \/ \E max_turns \in MaxTurnsArgs : create_session(max_turns)
    \/ \E id \in SessionIds, agent_id \in Agents, message \in Messages,
          response_time \in ResponseTimes :
          add_turn(id, agent_id, message, response_time)
    \/ \E id \in SessionIds : load_session(id)
    \/ new_manager
    \/ \E id \in SessionIds, dir \in {"sessions", "completed"}, how \in Damages :
          damage(id, dir, how)

SpecStore == Init /\ [][NextStore]_vars

(***************************************************************************)
(* A write that fails.  open(filepath, 'w') or json.dump in save_session   *)
(* raises OSError; nothing in SessionManager catches it, so it leaves the  *)
(* call that was saving.  The file is as it was when open failed, and cut  *)
(* short (no JSON) when the write failed after open had emptied it.  In    *)
(* add_turn the save that fails is the one of complete_session (line 165,  *)
(* for the turn that uses up the budget) or its own (line 130).            *)
(***************************************************************************)
WriteFailures == {"untouched", "cut_short"}

SavingCalls == {"complete_session", "add_turn"}

save_session_failing(fs, session, how) ==
    IF how = "untouched" THEN fs
    ELSE [fs EXCEPT ![SaveDir(session)] =
             Put(@, session.session_id, DamagedFile(JsonFile(SessionDict(session)), "not_json"))]

\* add_turn on a registered session that accepts turns, up to the save that fails
add_turn_failing_on(m, id, agent_id, message, response_time, at, how) ==
    LET m1 == IF m.active[id].status # "ACTIVE" THEN SetStatus(m, id, "ACTIVE") ELSE m
        turn == NewTurn(m1.active[id], agent_id, message, response_time)
        m2 == [m1 EXCEPT !.active[id] = AppendTurn(@, turn)]
    IN  IF BudgetReached(m2.active[id])
        THEN LET m3 == SetStatus(m2, id, "COMPLETED")
                 session == m3.active[id]
             IN  IF at = "complete_session"
                 THEN LET fs1 == [m3.fs EXCEPT !.sessions = Del(@, id)]
                      IN  [m |-> [m3 EXCEPT !.fs = save_session_failing(fs1, session, how)],
                           ret |-> "OSError", session |-> <<session>>]
                 ELSE LET m4 == complete_session_on(m3, id)
                      IN  [m |-> [m4 EXCEPT !.fs = save_session_failing(@, session, how)],
                           ret |-> "OSError", session |-> <<session>>]
        ELSE [m |-> [m2 EXCEPT !.fs = save_session_failing(@, m2.active[id], how)],
              ret |-> "OSError", session |-> <<m2.active[id]>>]

add_turn_fails(id, agent_id, message, response_time, at, how) ==
    /\ id \in DOMAIN active_sessions
    /\ AcceptsTurns(active_sessions[id])
    /\ at = "complete_session" =>
          active_sessions[id].current_turn + 1 >= active_sessions[id].max_turns
    /\ LET r == add_turn_failing_on(Manager, id, agent_id, message, response_time, at, how)
       IN  Called("add_turn", id, r.ret, r.m, r.session)
    /\ UNCHANGED hist

NextStorage ==
    \/ \E max_turns \in MaxTurnsArgs : create_session(max_turns)
    \/ \E id \in SessionIds, agent_id \in Agents, message \in Messages,
          response_time \in ResponseTimes :
          add_turn(id, agent_id, message, response_time)
    \/ \E id \in SessionIds : load_session(id)
    \/ new_manager
    \/ \E id \in SessionIds, agent_id \in Agents, message \in Messages,
          response_time \in ResponseTimes, at \in SavingCalls, how \in WriteFailures :
          add_turn_fails(id, agent_id, message, response_time, at, how)

SpecStorage == Init /\ [][NextStorage]_vars

(***************************************************************************)
(* run_integrated_demo: the loop that asks the two agents in turn for a    *)
(* response, adds it to the session and makes a checkpoint.  One action is *)
(* one pass of the loop body.  generate_response ends with the value of    *)
(* the retry wrapper or, for a RetryError, in its except clause, which     *)
(* hands the user message of error_logger.log_error back as the response.  *)
(***************************************************************************)
DemoTurns == 6

DemoMaxTurns == 6

DemoResponseTimes == {1, 2}

WrapperOutcomes == {"value", "RetryError"}

UserMessage == "error message"

Speaker(turn) == IF turn % 2 = 0 THEN "A" ELSE "B"

\* BaseDebateAgent.generate_response: the response and the agent's conversation_history
generate_response(conversation_history, wrapped, response_time) ==
    IF wrapped = "value"
    THEN [response |-> "alpha",
          conversation_history |-> Append(conversation_history, response_time)]
    ELSE [response |-> UserMessage, conversation_history |-> conversation_history]

DebateFrame == UNCHANGED <<hist, rvars, bvars, ivars, cvars, tvars, qvars, threaded>>

d_create_session ==
    /\ debate.pc = "create_session"
    /\ LET session == NewSession(1, DemoMaxTurns)
       IN  /\ active_sessions' = Put(active_sessions, 1, session)
           /\ files' = save_session(files, session)
           /\ last' = [op |-> "create_session", id |-> 1, known |-> FALSE,
                       ret |-> "session", trans |-> <<>>]
           /\ result' = <<session>>
           /\ debate' = [debate EXCEPT !.pc = "loop", !.session = <<session>>]
    /\ DebateFrame

\* the body of "for turn in range(6)"
d_turn(wrapped, response_time) ==
    /\ debate.pc = "loop"
    /\ debate.turn < DemoTurns
    /\ LET agent == Speaker(debate.turn)
           id == debate.session[1].session_id
           g == generate_response(debate.conversation_history[agent], wrapped, response_time)
           history == g.conversation_history
           r == add_turn_on(Manager, id, agent, g.response, history[Len(history)])
           step == [debate EXCEPT !.turn = @ + 1, !.outcome = wrapped,
                                  !.conversation_history[agent] = history]
       IN  IF history = <<>>
           THEN \* conversation_history[-1] raises IndexError: the except clause of the loop
                /\ debate' = [step EXCEPT !.calls =
                                 <<[op |-> "save_emergency_checkpoint", error |-> "IndexError"]>>]
                /\ UNCHANGED <<active_sessions, files, last, result>>
           ELSE /\ active_sessions' = r.m.active
                /\ files' = r.m.fs
                /\ last' = [op |-> "add_turn", id |-> id,
                            known |-> id \in DOMAIN active_sessions,
                            ret |-> IF r.ret THEN "True" ELSE "False", trans |-> r.m.trans]
                /\ result' = r.session
                /\ debate' = IF r.ret
                             THEN [step EXCEPT !.session = r.session,
                                               !.calls = <<[op |-> "create_checkpoint",
                                                            error |-> "none"]>>]
                             ELSE [step EXCEPT !.calls = <<>>]
    /\ DebateFrame

NextDebate ==
    \/ d_create_session
    \/ \E wrapped \in WrapperOutcomes, response_time \in DemoResponseTimes :
          d_turn(wrapped, response_time)

SpecDebate == Init /\ [][NextDebate]_vars

(***************************************************************************)
(* Two threads in add_turn on one session.  SessionManager has no lock,    *)
(* and both threads hold the same DebateSession object (line 104), so the  *)
(* statements of add_turn and of the complete_session it calls interleave. *)
(* One step is one statement, named by its line; session.current_turn += 1 *)
(* is a read and a write.  save_session is taken as one step.  An          *)
(* exception, the FileNotFoundError of os.remove or the KeyError of del,   *)
(* ends the call of the thread it is raised in.                            *)
(***************************************************************************)
ThreadBudgets == {1, 2, 3}

ThreadFrame == UNCHANGED <<svars, rvars, bvars, ivars, cvars, tvars, qvars, debate>>

At(t, line) == threaded.local[t].pc = line

Object == threaded.session[1]

\* create_session, before the threads start
th_create_session(max_turns) ==
    /\ threaded.session = <<>>
    /\ LET session == NewSession(1, max_turns)
       IN  threaded' = [threaded EXCEPT !.session = <<session>>, !.registered = TRUE,
                                        !.fs = save_session(@, session)]
    /\ ThreadFrame

th_call(t) ==
    /\ threaded.session # <<>>
    /\ At(t, "idle")
    /\ threaded' = [threaded EXCEPT !.local[t].pc = "101"]
    /\ ThreadFrame

\* if session_id not in self.active_sessions: return False
th_101(t) ==
    /\ At(t, "101")
    /\ threaded' = IF threaded.registered
                   THEN [threaded EXCEPT !.local[t].pc = "106"]
                   ELSE [threaded EXCEPT !.local[t].pc = "done", !.local[t].ret = "False"]
    /\ ThreadFrame

\* if session.status != SessionStatus.ACTIVE:
th_106(t) ==
    /\ At(t, "106")
    /\ threaded' = [threaded EXCEPT !.local[t].pc =
                                       IF Object.status # "ACTIVE" THEN "107" ELSE "112"]
    /\ ThreadFrame

\* if session.status == SessionStatus.PENDING: ... else: return False
th_107(t) ==
    /\ At(t, "107")
    /\ threaded' = IF Object.status = "PENDING"
                   THEN [threaded EXCEPT !.local[t].pc = "108"]
                   ELSE [threaded EXCEPT !.local[t].pc = "done", !.local[t].ret = "False"]
    /\ ThreadFrame

\* session.status = SessionStatus.ACTIVE
th_108(t) ==
    /\ At(t, "108")
    /\ threaded' = [threaded EXCEPT !.session[1].status = "ACTIVE", !.local[t].pc = "112"]
    /\ ThreadFrame

\* turn = DiscussionTurn(turn_number=session.current_turn + 1, ...)
th_112(t) ==
    /\ At(t, "112")
    /\ threaded' = [threaded EXCEPT !.local[t].turn_number = NextTurnNumber(Object),
                                    !.local[t].pc = "121"]
    /\ ThreadFrame

\* session.turn_history.append(turn)
th_121(t) ==
    /\ At(t, "121")
    /\ threaded' = [threaded EXCEPT
                       !.session[1].turn_history =
                           Append(@, [turn_number   |-> threaded.local[t].turn_number,
                                      agent_id      |-> t,
                                      message       |-> "alpha",
                                      response_time |-> 0]),
                       !.local[t].pc = "122"]
    /\ ThreadFrame

\* session.current_turn += 1: the read
th_122_read(t) ==
    /\ At(t, "122")
    /\ threaded' = [threaded EXCEPT !.local[t].read = Object.current_turn,
                                    !.local[t].pc = "122w"]
    /\ ThreadFrame

\* session.current_turn += 1: the write
th_122_write(t) ==
    /\ At(t, "122w")
    /\ threaded' = [threaded EXCEPT !.session[1].current_turn = threaded.local[t].read + 1,
                                    !.local[t].pc = "126"]
    /\ ThreadFrame

\* if session.current_turn >= session.max_turns:
th_126(t) ==
    /\ At(t, "126")
    /\ threaded' = [threaded EXCEPT !.local[t].pc =
                                       IF BudgetReached(Object) THEN "127" ELSE "130"]
    /\ ThreadFrame

\* session.status = SessionStatus.COMPLETED; self.complete_session(session_id)
th_127(t) ==
    /\ At(t, "127")
    /\ threaded' = [threaded EXCEPT !.session[1].status = "COMPLETED", !.local[t].pc = "154"]
    /\ ThreadFrame

\* complete_session: if session_id not in self.active_sessions: return False
th_154(t) ==
    /\ At(t, "154")
    /\ threaded' = [threaded EXCEPT !.local[t].pc =
                                       IF threaded.registered THEN "158" ELSE "130"]
    /\ ThreadFrame

\* complete_session: session.status = SessionStatus.COMPLETED
th_158(t) ==
    /\ At(t, "158")
    /\ threaded' = [threaded EXCEPT !.session[1].status = "COMPLETED", !.local[t].pc = "162"]
    /\ ThreadFrame

\* complete_session: if os.path.exists(old_path):
th_162(t) ==
    /\ At(t, "162")
    /\ threaded' = [threaded EXCEPT !.local[t].pc =
                       IF Object.session_id \in DOMAIN threaded.fs.sessions THEN "163" ELSE "165"]
    /\ ThreadFrame

\* complete_session: os.remove(old_path)
th_163(t) ==
    /\ At(t, "163")
    /\ threaded' = IF Object.session_id \in DOMAIN threaded.fs.sessions
                   THEN [threaded EXCEPT !.fs.sessions = Del(@, Object.session_id),
                                         !.local[t].pc = "165"]
                   ELSE [threaded EXCEPT !.local[t].pc = "done",
                                         !.local[t].ret = "FileNotFoundError"]
    /\ ThreadFrame

\* complete_session: self.save_session(session)
th_165(t) ==
    /\ At(t, "165")
    /\ threaded' = [threaded EXCEPT !.fs = save_session(@, Object), !.local[t].pc = "168"]
    /\ ThreadFrame

\* complete_session: del self.active_sessions[session_id]; return True
th_168(t) ==
    /\ At(t, "168")
    /\ threaded' = IF threaded.registered
                   THEN [threaded EXCEPT !.registered = FALSE, !.local[t].pc = "130"]
                   ELSE [threaded EXCEPT !.local[t].pc = "done", !.local[t].ret = "KeyError"]
    /\ ThreadFrame

\* self.save_session(session); return True
th_130(t) ==
    /\ At(t, "130")
    /\ threaded' = [threaded EXCEPT !.fs = save_session(@, Object),
                                    !.local[t].pc = "done", !.local[t].ret = "True"]
    /\ ThreadFrame

NextThreads ==
    \/ \E max_turns \in ThreadBudgets : th_create_session(max_turns)
    \/ \E t \in Threads : th_call(t)
    \/ \E t \in Threads : th_101(t)
    \/ \E t \in Threads : th_106(t)
    \/ \E t \in Threads : th_107(t)
    \/ \E t \in Threads : th_108(t)
    \/ \E t \in Threads : th_112(t)
    \/ \E t \in Threads : th_121(t)
    \/ \E t \in Threads : th_122_read(t)
    \/ \E t \in Threads : th_122_write(t)
    \/ \E t \in Threads : th_126(t)
    \/ \E t \in Threads : th_127(t)
    \/ \E t \in Threads : th_154(t)
    \/ \E t \in Threads : th_158(t)
    \/ \E t \in Threads : th_162(t)
    \/ \E t \in Threads : th_163(t)
    \/ \E t \in Threads : th_165(t)
    \/ \E t \in Threads : th_168(t)
    \/ \E t \in Threads : th_130(t)

SpecThreads == Init /\ [][NextThreads]_vars

(***************************************************************************)
(* retry_with_backoff: one call of the wrapper, step by step.              *)
(*   "attempt"  : about to call f (the try of iteration attempt)           *)
(*   "caught"   : an exception of a listed kind was caught and logged      *)
(*   "notified" : past the on_retry call; next the last-attempt test       *)
(*   "done"     : the wrapper returned or raised                           *)
(***************************************************************************)
\* the wrapper is called: last_exception = None, the for loop starts (or is empty)
invoke(config, on_retry) ==
    /\ pc \in {"idle", "done"}
    /\ wrapper' = [config |-> config, on_retry |-> on_retry]
    /\ last_exception' = <<>>
    /\ log' = <<>>
    /\ IF config.max_attempts >= 1
       THEN /\ attempt' = 1
            /\ pc' = "attempt"
            /\ outcome' = <<>>
       ELSE /\ attempt' = 0
            /\ pc' = "done"
            /\ outcome' = Ended("RetryError", "", NoExc)   \* "Unexpected retry loop exit"
    /\ UNCHANGED <<svars, xvars>>

WrapperReturns_nothing(value) == "None"

WrapperReturns(value) == value

\* return f(*args, **kwargs): f returns value, which the log keeps with the event
call_returns(value) ==
    /\ pc = "attempt"
    /\ log' = log \o <<Event("call", attempt, NoExc, 0),
                       Event("return", attempt, NoExc, 0) @@ [value |-> value]>>
    /\ outcome' = Ended("return", WrapperReturns(value), NoExc)
    /\ pc' = "done"
    /\ UNCHANGED <<wrapper, attempt, last_exception>>
    /\ UNCHANGED <<svars, xvars>>

\* f raises: except exceptions as e catches the listed kinds, the others pass through
call_raises(type) ==
    /\ pc = "attempt"
    /\ LET e == [type |-> type, at |-> attempt]
       IN  /\ log' = log \o <<Event("call", attempt, NoExc, 0), Event("fail", attempt, e, 0)>>
           /\ IF IsListed(e)
              THEN /\ last_exception' = <<e>>
                   /\ pc' = "caught"
                   /\ outcome' = outcome
              ELSE /\ last_exception' = last_exception
                   /\ pc' = "done"
                   /\ outcome' = Ended("raise", "", e)
    /\ UNCHANGED <<wrapper, attempt>>
    /\ UNCHANGED <<svars, xvars>>

ObserverArgs_zero_based(e, n) == <<e, n - 1>>

ObserverArgs(e, n) == <<e, n>>

Notifies_except_last(on_retry, n, config) == on_retry /\ n < config.max_attempts

Notifies(on_retry, n, config) == on_retry

\* if on_retry: on_retry(e, attempt); the observer returns or raises
notify(raises) ==
    /\ pc = "caught"
    /\ IF ~Notifies(wrapper.on_retry, attempt, wrapper.config)
       THEN /\ ~raises
            /\ pc' = "notified"
            /\ UNCHANGED <<log, outcome>>
       ELSE LET args == ObserverArgs(last_exception[1], attempt)
            IN  /\ log' = Append(log, Event("on_retry", args[2], args[1], 0))
                /\ IF raises
                   THEN /\ pc' = "done"
                        /\ outcome' = Ended("raise", "", [type |-> "ObserverError", at |-> attempt])
                   ELSE /\ pc' = "notified"
                        /\ outcome' = outcome
    /\ UNCHANGED <<wrapper, attempt, last_exception>>
    /\ UNCHANGED <<svars, xvars>>

IsLastAttempt_one_early(n, config) == n >= config.max_attempts - 1

IsLastAttempt(n, config) == n = config.max_attempts

\* if attempt == config.max_attempts: raise RetryError(...) from last_exception
exhaust ==
    /\ pc = "notified"
    /\ IsLastAttempt(attempt, wrapper.config)
    /\ outcome' = Ended("RetryError", "", last_exception[1])
    /\ pc' = "done"
    /\ UNCHANGED <<wrapper, attempt, last_exception, log>>
    /\ UNCHANGED <<svars, xvars>>

NextIteration_same_attempt(n) == n

NextIteration(n) == n + 1

\* delay = calculate_backoff_delay(attempt, config); time.sleep(delay); next iteration
backoff(factor) ==
    /\ pc = "notified"
    /\ ~IsLastAttempt(attempt, wrapper.config)
    /\ log' = Append(log, Event("sleep", attempt, NoExc,
                               calculate_backoff_delay(attempt, wrapper.config, factor)))
    /\ attempt' = NextIteration(attempt)
    /\ pc' = "attempt"
    /\ UNCHANGED <<wrapper, last_exception, outcome>>
    /\ UNCHANGED <<svars, xvars>>

NextRetry ==
    \/ \E config \in Configs, on_retry \in BOOLEAN : invoke(config, on_retry)
    \/ \E value \in Values : call_returns(value)
    \/ \E type \in ErrorTypes : call_raises(type)
    \/ \E raises \in BOOLEAN : notify(raises)
    \/ exhaust
    \/ \E factor \in JitterFactors : backoff(factor)

SpecRetry == Init /\ [][NextRetry]_vars

\* a wrapper that was called goes on: f and on_retry return or raise, time.sleep returns
WrapperStep ==
    \/ \E value \in Values : call_returns(value)
    \/ \E type \in ErrorTypes : call_raises(type)
    \/ \E raises \in BOOLEAN : notify(raises)
    \/ exhaust
    \/ \E factor \in JitterFactors : backoff(factor)

SpecRetryLive == Init /\ [][NextRetry]_vars /\ WF_vars(WrapperStep)

(***************************************************************************)
(* calculate_backoff_delay on its own: a RetryConfig is fixed and the      *)
(* delays for attempt 1, 2, 3, ... are computed one after the other.       *)
(* RetryConfig checks none of its arguments, so exponential_base 0 and 1   *)
(* and an initial_delay of 0 or above max_delay are configurations too.    *)
(***************************************************************************)
BackoffInitialDelays == {0, 1000, 4000}
BackoffMaxDelays == {0, 3000}
BackoffBases == {0, 1, 2}

BackoffConfigs ==
    [max_attempts : {DefaultConfig.max_attempts}, initial_delay : BackoffInitialDelays,
     max_delay : BackoffMaxDelays, exponential_base : BackoffBases, jitter : BOOLEAN]

InitBackoff ==
    /\ InitManager
    /\ InitWrapper
    /\ schedule \in {[config |-> config, delays |-> <<>>] : config \in BackoffConfigs}
    /\ InitInvocations
    /\ InitCheckpoints
    /\ InitTasks
    /\ InitOrchestration
    /\ InitQuality

\* calculate_backoff_delay(n, config) for the next n
next_delay(factor) ==
    /\ Len(schedule.delays) < MaxBackoffCalls
    /\ schedule' = [schedule EXCEPT !.delays =
                        Append(@, calculate_backoff_delay(Len(@) + 1, schedule.config, factor))]
    /\ UNCHANGED <<svars, rvars, ivars, cvars, tvars, qvars, ovars>>

NextBackoff == \E factor \in JitterFactors : next_delay(factor)

SpecBackoff == InitBackoff /\ [][NextBackoff]_vars

(***************************************************************************)
(* Two calls of one decorated function.  config, exceptions and on_retry   *)
(* belong to the closure and are shared; last_exception and the loop       *)
(* variable attempt are locals of wrapper, one of each per call.  A call   *)
(* gives way to the other between its steps: before calling f and while it *)
(* sleeps.  calls lists the attempt numbers at which f was called.         *)
(***************************************************************************)
InvocationConfigs == {config \in Configs : ~config.jitter}

InitShared ==
    /\ InitManager
    /\ InitWrapper
    /\ InitSchedule
    /\ decorated \in {[config |-> config] : config \in InvocationConfigs}
    /\ invocations = [i \in Invocations |-> NotInvoked]
    /\ InitCheckpoints
    /\ InitTasks
    /\ InitOrchestration
    /\ InitQuality

Max(a, b) == IF a >= b THEN a ELSE b

NextAttempt_shared_counter(invs, i) ==
    LET j == CHOOSE k \in Invocations : k # i
    IN  Max(invs[i].attempt, invs[j].attempt) + 1

NextAttempt(invs, i) == invs[i].attempt + 1

\* wrapper(...) is entered: the for loop starts at attempt 1, or is empty
enter(i) ==
    /\ invocations[i].pc \in {"idle", "done"}
    /\ invocations' = [invocations EXCEPT ![i] =
            IF decorated.config.max_attempts >= 1
            THEN [pc |-> "attempt", attempt |-> 1, calls |-> <<>>, outcome |-> "none"]
            ELSE [pc |-> "done", attempt |-> 0, calls |-> <<>>, outcome |-> "RetryError"]]
    /\ UNCHANGED <<svars, rvars, bvars, cvars, tvars, qvars, ovars, decorated>>

\* f returns and so does the wrapper
returns(i) ==
    /\ invocations[i].pc = "attempt"
    /\ invocations' = [invocations EXCEPT ![i] =
            [@ EXCEPT !.pc = "done", !.calls = Append(@, invocations[i].attempt),
                      !.outcome = "returned"]]
    /\ UNCHANGED <<svars, rvars, bvars, cvars, tvars, qvars, ovars, decorated>>

\* f raises: an unlisted exception propagates, the last attempt ends in RetryError,
\* any other attempt goes to sleep
raises(i, type) ==
    /\ invocations[i].pc = "attempt"
    /\ LET e == [type |-> type, at |-> invocations[i].attempt]
           called == [invocations[i] EXCEPT !.calls = Append(@, invocations[i].attempt)]
       IN  invocations' = [invocations EXCEPT ![i] =
               IF ~IsListed(e) THEN [called EXCEPT !.pc = "done", !.outcome = "propagated"]
               ELSE IF IsLastAttempt(called.attempt, decorated.config)
                    THEN [called EXCEPT !.pc = "done", !.outcome = "RetryError"]
                    ELSE [called EXCEPT !.pc = "sleeping"]]
    /\ UNCHANGED <<svars, rvars, bvars, cvars, tvars, qvars, ovars, decorated>>

\* time.sleep returns: the next iteration of the for loop
wake(i) ==
    /\ invocations[i].pc = "sleeping"
    /\ invocations' = [invocations EXCEPT ![i] =
            [@ EXCEPT !.pc = "attempt", !.attempt = NextAttempt(invocations, i)]]
    /\ UNCHANGED <<svars, rvars, bvars, cvars, tvars, qvars, ovars, decorated>>

NextShared ==
    \/ \E i \in Invocations : enter(i)
    \/ \E i \in Invocations : returns(i)
    \/ \E i \in Invocations, type \in ErrorTypes : raises(i, type)
    \/ \E i \in Invocations : wake(i)

SpecShared == InitShared /\ [][NextShared]_vars

(***************************************************************************)
(* The checkpoint store (src/core/checkpoint_manager.py): one              *)
(* CheckpointManager on one checkpoint directory with its four             *)
(* subdirectories.  Ids and file names are strings, modelled as sequences  *)
(* of characters, because the lookups test "text in filename".  uuid4()    *)
(* hands out ids of one length that never repeat.                          *)
(***************************************************************************)
CheckpointType == {"AUTOMATIC", "MANUAL", "SCHEDULED", "EMERGENCY"}

TypeValue(t) ==
    CASE t = "AUTOMATIC" -> "automatic"
      [] t = "MANUAL"    -> "manual"
      [] t = "SCHEDULED" -> "scheduled"
      [] t = "EMERGENCY" -> "emergency"

TypeOfValue(v) == CHOOSE t \in CheckpointType : TypeValue(t) = v

Subdirs == <<"automatic", "manual", "scheduled", "emergency">>

Digits == <<"1", "2", "3", "4", "5", "6", "7", "8", "9">>

Uuid(k) == <<"c", Digits[k]>>

Extension == <<".", "j", "s", "o", "n">>

Filename_by_session(session_id, checkpoint_id) == session_id \o Extension

Filename(session_id, checkpoint_id) == session_id \o <<"_">> \o checkpoint_id \o Extension

\* Python's "a in b" on strings
In(a, b) == \E i \in 0..(Len(b) - Len(a)) : SubSeq(b, i + 1, i + Len(a)) = a

(***************************************************************************)
(* The sessions handed to the checkpoint manager.  They are built with the *)
(* SessionManager's own operations, plus the participants, which           *)
(* create_checkpoint reads.  A DebateSession is a plain dataclass, so a    *)
(* caller can also hand over one without participants, with an empty       *)
(* session_id or with a negative current_turn.                             *)
(***************************************************************************)
Participant ==
    [A |-> [id |-> "A", name |-> "Pro Agent", role |-> "pro"],
     B |-> [id |-> "B", name |-> "Con Agent", role |-> "con"]]

BothParticipants == <<Participant.A, Participant.B>>

SessionIdTexts == {<<"s", "1">>, <<"s", "1", "2">>}

FreshSession(session_id, participants) ==
    NewSession(session_id, DefaultMaxTurns) @@ [participants |-> participants]

RunningSession(session_id, participants) ==
    LET fresh == FreshSession(session_id, participants)
        m == [active |-> Put(EmptyMap, session_id, fresh),
              fs |-> [sessions |-> EmptyMap, completed |-> EmptyMap], trans |-> <<>>]
    IN  add_turn_on(m, session_id, "A", "alpha", 0).m.active[session_id]

\* one session before and after its first turn
ValidSessions ==
    {FreshSession(<<"s", "1">>, BothParticipants),
     RunningSession(<<"s", "1">>, BothParticipants)}

\* a session whose id contains the id of the other
NestedSessions == {FreshSession(<<"s", "1", "2">>, BothParticipants)}

InvalidSessions ==
    {FreshSession(<<"s", "1">>, <<>>),
     RunningSession(<<>>, BothParticipants),
     [RunningSession(<<"s", "1">>, BothParticipants) EXCEPT !.current_turn = -1]}

CheckpointSessions == ValidSessions \cup InvalidSessions

(***************************************************************************)
(* AgentState and SessionCheckpoint.  A message of the model is shorter    *)
(* than the 50 characters _generate_summary keeps of it.                   *)
(***************************************************************************)
AgentTurns_of_everyone(session, agent_id) == session.turn_history

AgentTurns(session, agent_id) ==
    LET ByAgent(turn) == turn.agent_id = agent_id
    IN  SelectSeq(session.turn_history, ByAgent)

generate_summary(turns) ==
    IF turns = <<>> THEN <<"No conversation yet">>
    ELSE IF Len(turns) = 1 THEN <<turns[1].message, "...">>
    ELSE <<"Started: ", turns[1].message, "... Latest: ", turns[Len(turns)].message, "...">>

AgentState(fields) == <<"AgentState", fields>>

asdict(state) == state[2]

AgentStateOf(session, participant) ==
    LET turns == AgentTurns(session, participant.id)
    IN  AgentState(
          [agent_id |-> participant.id,
           last_response |-> IF turns # <<>> THEN turns[Len(turns)].message ELSE "",
           response_time |-> IF turns # <<>> THEN turns[Len(turns)].response_time ELSE 0,
           turn_count |-> Len(turns),
           personality_params |-> [name |-> participant.name,
                                   role |-> Get(participant, "role", "unknown")],
           conversation_summary |-> generate_summary(turns)])

\* participants_state[agent_id] = agent_state, in the order of session.participants
ParticipantsState(session) ==
    LET ps == session.participants
        ids == {ps[i].id : i \in DOMAIN ps}
        LastOf(id) == CHOOSE i \in DOMAIN ps :
                          /\ ps[i].id = id
                          /\ \A j \in DOMAIN ps : ps[j].id = id => j <= i
    IN  [id \in ids |-> AgentStateOf(session, ps[LastOf(id)])]

None == <<>>

SessionCheckpoint(checkpoint_id, session, timestamp, checkpoint_type, quality_snapshot, metadata) ==
    [checkpoint_id |-> checkpoint_id,
     session_id |-> session.session_id,
     timestamp |-> timestamp,
     turn_number |-> session.current_turn,
     checkpoint_type |-> checkpoint_type,
     status |-> session.status,
     participants_state |-> ParticipantsState(session),
     quality_snapshot |-> quality_snapshot,
     metadata |-> IF metadata = None THEN EmptyMap ELSE metadata[1]]

validate_ignores_participants(checkpoint) ==
    /\ checkpoint.checkpoint_id # <<>>
    /\ checkpoint.session_id # <<>>
    /\ checkpoint.turn_number >= 0

validate(checkpoint) ==
    /\ checkpoint.checkpoint_id # <<>>
    /\ checkpoint.session_id # <<>>
    /\ DOMAIN checkpoint.participants_state # {}
    /\ checkpoint.turn_number >= 0

isoformat(timestamp) == [isoformat |-> timestamp]

fromisoformat(text) == text.isoformat

to_dict(checkpoint) ==
    [checkpoint EXCEPT
        !.timestamp = isoformat(@),
        !.checkpoint_type = TypeValue(@),
        !.status = StatusValue(@),
        !.participants_state = [id \in DOMAIN @ |-> asdict(@[id])]]

from_dict_drops_quality(data) ==
    [data EXCEPT
        !.timestamp = fromisoformat(@),
        !.checkpoint_type = TypeOfValue(@),
        !.status = StatusOfValue(@),
        !.participants_state = [id \in DOMAIN @ |-> AgentState(@[id])],
        !.quality_snapshot = None]

from_dict(data) ==
    [data EXCEPT
        !.timestamp = fromisoformat(@),
        !.checkpoint_type = TypeOfValue(@),
        !.status = StatusOfValue(@),
        !.participants_state = [id \in DOMAIN @ |-> AgentState(@[id])]]

(***************************************************************************)
(* The checkpoint directory: subdirectory -> file name -> file.  A file    *)
(* has the JSON document written and its modification time.  os.listdir    *)
(* returns the names of a subdirectory in an order of its own choosing: a  *)
(* listing gives one order for each subdirectory.                          *)
(***************************************************************************)
save_checkpoint(dir, checkpoint, mtime) ==
    [dir EXCEPT ![TypeValue(checkpoint.checkpoint_type)] =
        Put(@, Filename(checkpoint.session_id, checkpoint.checkpoint_id),
            JsonFile(to_dict(checkpoint)) @@ [mtime |-> mtime])]

Orders(names) ==
    {order \in [1..Cardinality(names) -> names] :
        \A i, j \in DOMAIN order : order[i] = order[j] => i = j}

Listings(dir) ==
    {[automatic |-> a, manual |-> m, scheduled |-> s, emergency |-> e] :
        a \in Orders(DOMAIN dir.automatic), m \in Orders(DOMAIN dir.manual),
        s \in Orders(DOMAIN dir.scheduled), e \in Orders(DOMAIN dir.emergency)}

\* the checkpoints read from the files whose name contains text, subdirectory by
\* subdirectory in the order of subdirs, within each in the order of the listing
RECURSIVE Matching(_, _, _, _)
Matching(dir, listing, subdirs, text) ==
    IF subdirs = <<>> THEN <<>>
    ELSE LET subdir == Head(subdirs)
             Hit(filename) == In(text, filename)
             names == SelectSeq(listing[subdir], Hit)
         IN  [i \in DOMAIN names |-> from_dict(dir[subdir][names[i]].doc)]
               \o Matching(dir, listing, Tail(subdirs), text)

load_checkpoint_on(dir, listing, checkpoint_id) ==
    LET found == Matching(dir, listing, Subdirs, checkpoint_id)
    IN  IF found = <<>> THEN None ELSE <<found[1]>>

\* list.sort(key=timestamp): stable, equal timestamps keep their order
RECURSIVE SortByTimestamp(_)
SortByTimestamp(checkpoints) ==
    IF checkpoints = <<>> THEN <<>>
    ELSE LET n == Len(checkpoints)
             sorted == SortByTimestamp(SubSeq(checkpoints, 1, n - 1))
             c == checkpoints[n]
             Before(x) == x.timestamp <= c.timestamp
             After(x) == x.timestamp > c.timestamp
         IN  SelectSeq(sorted, Before) \o <<c>> \o SelectSeq(sorted, After)

get_session_checkpoints_on(dir, listing, session_id, checkpoint_type) ==
    LET subdirs == IF checkpoint_type # None THEN <<TypeValue(checkpoint_type[1])>>
                   ELSE Subdirs
    IN  SortByTimestamp(Matching(dir, listing, subdirs, session_id))

get_latest_checkpoint_on(dir, listing, session_id) ==
    LET checkpoints == get_session_checkpoints_on(dir, listing, session_id, None)
    IN  IF checkpoints # <<>> THEN <<checkpoints[Len(checkpoints)]>> ELSE None

\* create_checkpoint: the checkpoint built, and the directory after the call
create_checkpoint_on(dir, session, checkpoint_type, quality_snapshot, metadata, uuid, now) ==
    LET checkpoint == SessionCheckpoint(uuid, session, now, checkpoint_type,
                                        quality_snapshot, metadata)
    IN  IF ~validate(checkpoint)
        THEN [dir |-> dir, exc |-> "ValueError", ret |-> None]
        ELSE [dir |-> save_checkpoint(dir, checkpoint, now), exc |-> "none",
              ret |-> <<checkpoint>>]

ErrorMetadata(error) ==
    <<[error_type |-> error.type, error_message |-> error.message, emergency_save |-> TRUE]>>

save_emergency_checkpoint_on(dir, listing, session_id, error, session, uuid, now) ==
    IF session = None
    THEN [dir |-> dir, exc |-> "none",
          ret |-> get_latest_checkpoint_on(dir, listing, session_id)]
    ELSE create_checkpoint_on(dir, session[1], "EMERGENCY", None, ErrorMetadata(error),
                              uuid, now)

cleanup_old_checkpoints_on_spares_emergency(dir, cutoff_time) ==
    [subdir \in DOMAIN dir |->
        [filename \in {f \in DOMAIN dir[subdir] :
                           subdir = "emergency" \/ ~(dir[subdir][f].mtime < cutoff_time)}
            |-> dir[subdir][filename]]]

\* cleanup_old_checkpoints: the files modified before the cutoff are removed
cleanup_old_checkpoints_on(dir, cutoff_time) ==
    [subdir \in DOMAIN dir |->
        [filename \in {f \in DOMAIN dir[subdir] : ~(dir[subdir][f].mtime < cutoff_time)}
            |-> dir[subdir][filename]]]

(***************************************************************************)
(* The operations of CheckpointManager, one action per call.  A call that  *)
(* reads the clock finds it where the last reading left it or one tick     *)
(* later.                                                                  *)
(***************************************************************************)
CreateArgs ==
    {[checkpoint_type |-> "AUTOMATIC", quality_snapshot |-> None, metadata |-> None],
     [checkpoint_type |-> "MANUAL", quality_snapshot |-> <<[overall |-> 80]>>,
      metadata |-> <<[note |-> "asked for"]>>]}

Errors == {[type |-> "TimeoutError", message |-> "timed out"]}

\* the clock is read once by each call that makes a checkpoint and once more after
MaxClock == MaxCheckpoints + 1

Readings == {now \in {clock, clock + 1} : now <= MaxClock}

CheckpointIds == {Uuid(k) : k \in 1..MaxCheckpoints}

\* what else a caller may give for a checkpoint id: a session id, a piece of an id
OtherTexts == SessionIdTexts \cup {<<"1">>}

DaysToKeep == {0}

TypeArgs == {None, <<"AUTOMATIC">>, <<"EMERGENCY">>}

\* what a call was given of a session: the fields create_checkpoint decides on
SessionArgs(session, checkpoint_type) ==
    [session_id |-> session.session_id, participants |-> Len(session.participants),
     current_turn |-> session.current_turn, status |-> session.status,
     checkpoint_type |-> checkpoint_type]

CheckpointCalled(op, args, r) ==
    /\ checkpoint_dir' = r.dir
    /\ ck_last' = [op |-> op, args |-> args, exc |-> r.exc, ret |-> r.ret]
    /\ UNCHANGED <<svars, rvars, bvars, ivars, tvars, qvars, ovars>>

Created(op, args, r, now) ==
    /\ CheckpointCalled(op, args, r)
    /\ clock' = now
    /\ uuids' = uuids + 1
    /\ persisted' = IF r.exc = "none" THEN Append(persisted, r.ret[1]) ELSE persisted

create_checkpoint(session, args, now) ==
    /\ uuids < MaxCheckpoints
    /\ Created("create_checkpoint", SessionArgs(session, args.checkpoint_type),
               create_checkpoint_on(checkpoint_dir, session, args.checkpoint_type,
                                    args.quality_snapshot, args.metadata,
                                    Uuid(uuids + 1), now),
               now)

save_emergency_checkpoint(session_id, error, session, now) ==
    IF session = None
    THEN /\ \E listing \in Listings(checkpoint_dir) :
              CheckpointCalled("save_emergency_checkpoint",
                  [session_id |-> session_id, error |-> error, session |-> None],
                  save_emergency_checkpoint_on(checkpoint_dir, listing, session_id, error,
                                               None, <<>>, now))
         /\ UNCHANGED <<clock, uuids, persisted>>
    ELSE /\ uuids < MaxCheckpoints
         /\ Created("save_emergency_checkpoint",
                SessionArgs(session[1], "EMERGENCY") @@ [error |-> error],
                save_emergency_checkpoint_on(checkpoint_dir, <<>>, session_id, error,
                                             session, Uuid(uuids + 1), now),
                now)

load_checkpoint(checkpoint_id) ==
    /\ \E listing \in Listings(checkpoint_dir) :
          CheckpointCalled("load_checkpoint", [checkpoint_id |-> checkpoint_id],
              [dir |-> checkpoint_dir, exc |-> "none",
               ret |-> load_checkpoint_on(checkpoint_dir, listing, checkpoint_id)])
    /\ UNCHANGED <<clock, uuids, persisted>>

get_session_checkpoints(session_id, checkpoint_type) ==
    /\ \E listing \in Listings(checkpoint_dir) :
          CheckpointCalled("get_session_checkpoints",
              [session_id |-> session_id, checkpoint_type |-> checkpoint_type],
              [dir |-> checkpoint_dir, exc |-> "none",
               ret |-> get_session_checkpoints_on(checkpoint_dir, listing, session_id,
                                                  checkpoint_type)])
    /\ UNCHANGED <<clock, uuids, persisted>>

get_latest_checkpoint(session_id) ==
    /\ \E listing \in Listings(checkpoint_dir) :
          CheckpointCalled("get_latest_checkpoint", [session_id |-> session_id],
              [dir |-> checkpoint_dir, exc |-> "none",
               ret |-> get_latest_checkpoint_on(checkpoint_dir, listing, session_id)])
    /\ UNCHANGED <<clock, uuids, persisted>>

\* cleanup_old_checkpoints(days_to_keep): cutoff_time = now - days_to_keep days
cleanup_old_checkpoints(days_to_keep, now) ==
    /\ LET cutoff_time == now - days_to_keep
           dir == cleanup_old_checkpoints_on(checkpoint_dir, cutoff_time)
           Count(d) == Cardinality(DOMAIN d.automatic) + Cardinality(DOMAIN d.manual)
                         + Cardinality(DOMAIN d.scheduled) + Cardinality(DOMAIN d.emergency)
       IN  CheckpointCalled("cleanup_old_checkpoints", [days_to_keep |-> days_to_keep],
               [dir |-> dir, exc |-> "none",
                ret |-> <<[removed_count |-> Count(checkpoint_dir) - Count(dir)]>>])
    /\ clock' = now
    /\ UNCHANGED <<uuids, persisted>>

\* the calls that write or remove checkpoint files, and the load of one
NextCheckpoint ==
    \/ \E session \in CheckpointSessions, args \in CreateArgs, now \in Readings :
          create_checkpoint(session, args, now)
    \/ \E session \in CheckpointSessions, error \in Errors, now \in Readings :
          save_emergency_checkpoint(session.session_id, error, <<session>>, now)
    \/ \E checkpoint_id \in CheckpointIds : load_checkpoint(checkpoint_id)
    \/ \E days_to_keep \in DaysToKeep, now \in Readings :
          cleanup_old_checkpoints(days_to_keep, now)

\* all the calls, on the checkpoints of two sessions
NextLookup ==
    \/ NextCheckpoint
    \/ \E session \in NestedSessions, args \in CreateArgs, now \in Readings :
          create_checkpoint(session, args, now)
    \/ \E text \in OtherTexts : load_checkpoint(text)
    \/ \E session_id \in SessionIdTexts, error \in Errors :
          save_emergency_checkpoint(session_id, error, None, clock)
    \/ \E session_id \in SessionIdTexts, checkpoint_type \in TypeArgs :
          get_session_checkpoints(session_id, checkpoint_type)
    \/ \E session_id \in SessionIdTexts : get_latest_checkpoint(session_id)

SpecCheckpoint == Init /\ [][NextCheckpoint]_vars

\* the calls that write checkpoint files, and the pruning of those older than
\* so many days (a tick of the clock is a day)
PruneDays == {0, 1}

NextPrune ==
    \/ \E session \in CheckpointSessions, args \in CreateArgs, now \in Readings :
          create_checkpoint(session, args, now)
    \/ \E session \in CheckpointSessions, error \in Errors, now \in Readings :
          save_emergency_checkpoint(session.session_id, error, <<session>>, now)
    \/ \E days_to_keep \in PruneDays, now \in Readings :
          cleanup_old_checkpoints(days_to_keep, now)

SpecPrune == Init /\ [][NextPrune]_vars

SpecLookup == Init /\ [][NextLookup]_vars

(***************************************************************************)
(* Two sessions in one SessionManager and one CheckpointManager, each      *)
(* worked on by a task (a thread) of its own.  A call is a sequence of     *)
(* steps, one for each access to what the tasks share: the registry        *)
(* active_sessions, the discussions directory, the checkpoint directory.   *)
(* Between two steps of a call the other task may take steps.  The local   *)
(* variable session of a call refers to the object the registry holds, so  *)
(* an assignment to it shows in both.  The id a session has in the         *)
(* registry stands for its uuid4 string; IdText gives the characters the   *)
(* checkpoint manager puts in file names.                                  *)
(*                                                                         *)
(* alone[id] is the reference: the state reached when the calls of the     *)
(* task of id, with the same arguments, run one after the other on a       *)
(* manager and a checkpoint directory that no other session uses.          *)
(***************************************************************************)
\* what the tasks call their operations with
TaskMaxTurns == {MaxTurns}
TaskAgents == {"A"}
TaskCreateArgs == {args \in CreateArgs : args.checkpoint_type = "AUTOMATIC"}
TaskCheckpoints == Cardinality(TaskIds)

IdText(id) == <<"s", Digits[id]>>

\* the session object as create_checkpoint gets it
WithParticipants(session) ==
    [session EXCEPT !.session_id = IdText(@)] @@ [participants |-> BothParticipants]

Unregister_all(active, id) == EmptyMap

Unregister(active, id) == Del(active, id)

RunAlone(a, id, op, arg) ==
    LET m == [active |-> a.active, fs |-> a.fs, trans |-> <<>>]
    IN  CASE op = "create_session" ->
               LET session == NewSession(id, arg.max_turns)
               IN  [a EXCEPT !.active = Put(@, id, session),
                             !.fs = save_session(@, session), !.ret = "session"]
          [] op = "add_turn" ->
               LET r == add_turn_on(m, id, arg.agent_id, arg.message, arg.response_time)
               IN  [a EXCEPT !.active = r.m.active, !.fs = r.m.fs,
                             !.ret = IF r.ret THEN "True" ELSE "False"]
          [] op = "complete_session" ->
               LET m1 == complete_session_on(m, id)
               IN  [a EXCEPT !.active = m1.active, !.fs = m1.fs,
                             !.ret = IF id \in DOMAIN a.active THEN "True" ELSE "False"]
          [] op = "load_session" ->
               LET r == load_session_on(m, id)
               IN  [a EXCEPT !.active = r.m.active, !.fs = r.m.fs, !.ret = r.ret]
          [] op = "create_checkpoint" ->
               LET r == create_checkpoint_on(a.dir, WithParticipants(a.active[id]),
                                             arg.checkpoint_type, arg.quality_snapshot,
                                             arg.metadata, arg.uuid, arg.now)
               IN  [a EXCEPT !.dir = r.dir, !.ret = r.exc]

\* the call goes on: the task of id stands at pc with its local session
GoesOn(id, op, arg, pc_, session) ==
    /\ tasks' = [tasks EXCEPT ![id] = [@ EXCEPT !.pc = pc_, !.op = op, !.arg = arg,
                                                !.session = session, !.ret = "none"]]
    /\ UNCHANGED alone

\* the call returns
Returns(id, op, arg, ret) ==
    /\ tasks' = [tasks EXCEPT ![id] = [@ EXCEPT !.pc = "idle", !.op = op, !.arg = EmptyMap,
                                                !.session = <<>>, !.ret = ret]]
    /\ alone' = [alone EXCEPT ![id] = RunAlone(@, id, op, arg)]

\* an assignment to a field of the session object
Assign(id, session) ==
    active_sessions' = IF id \in DOMAIN active_sessions
                       THEN [active_sessions EXCEPT ![id] = session]
                       ELSE active_sessions

TaskFrame == UNCHANGED <<last, result, hist, rvars, bvars, ivars, qvars, ovars, ck_last, persisted>>

\* create_session: the object is made and registered (line 94)
t_create_session(id, max_turns) ==
    /\ tasks[id].pc = "idle"
    /\ ~tasks[id].created                           \* str(uuid.uuid4()) is fresh
    /\ LET session == NewSession(id, max_turns)
       IN  /\ active_sessions' = Put(active_sessions, id, session)
           /\ tasks' = [tasks EXCEPT ![id] =
                  [pc |-> "save", op |-> "create_session", arg |-> [max_turns |-> max_turns],
                   session |-> <<session>>, ret |-> "none", created |-> TRUE]]
    /\ UNCHANGED <<files, alone, checkpoint_dir, clock, uuids>>
    /\ TaskFrame

\* add_turn: the test of the registry and session = self.active_sessions[session_id]
t_add_turn(id, agent_id, message, response_time) ==
    /\ tasks[id].pc = "idle"
    /\ LET arg == [agent_id |-> agent_id, message |-> message,
                   response_time |-> response_time]
       IN  IF id \notin DOMAIN active_sessions
           THEN Returns(id, "add_turn", arg, "False")
           ELSE GoesOn(id, "add_turn", arg, "advance", <<active_sessions[id]>>)
    /\ UNCHANGED <<active_sessions, files, checkpoint_dir, clock, uuids>>
    /\ TaskFrame

\* add_turn, lines 106-127: the status test, the new turn, the budget test
t_advance(id) ==
    /\ tasks[id].pc = "advance"
    /\ LET t == tasks[id]
           session == t.session[1]
       IN  IF ~AcceptsTurns(session)
           THEN /\ Returns(id, t.op, t.arg, "False")
                /\ UNCHANGED active_sessions
           ELSE LET active == [session EXCEPT !.status = "ACTIVE"]
                    turn == NewTurn(active, t.arg.agent_id, t.arg.message,
                                    t.arg.response_time)
                    turned == AppendTurn(active, turn)
                IN  IF BudgetReached(turned)
                    THEN LET completed == [turned EXCEPT !.status = "COMPLETED"]
                         IN  /\ Assign(id, completed)
                             /\ GoesOn(id, t.op, t.arg, "remove", <<completed>>)
                    ELSE /\ Assign(id, turned)
                         /\ GoesOn(id, t.op, t.arg, "save", <<turned>>)
    /\ UNCHANGED <<files, checkpoint_dir, clock, uuids>>
    /\ TaskFrame

\* complete_session called directly: lines 153-158
t_complete_session(id) ==
    /\ tasks[id].pc = "idle"
    /\ IF id \notin DOMAIN active_sessions
       THEN /\ Returns(id, "complete_session", EmptyMap, "False")
            /\ UNCHANGED active_sessions
       ELSE LET completed == [active_sessions[id] EXCEPT !.status = "COMPLETED"]
            IN  /\ Assign(id, completed)
                /\ GoesOn(id, "complete_session", EmptyMap, "remove", <<completed>>)
    /\ UNCHANGED <<files, checkpoint_dir, clock, uuids>>
    /\ TaskFrame

\* complete_session: if os.path.exists(old_path): os.remove(old_path)
t_remove(id) ==
    /\ tasks[id].pc = "remove"
    /\ files' = [files EXCEPT !.sessions = Del(@, id)]
    /\ GoesOn(id, tasks[id].op, tasks[id].arg, "archive", tasks[id].session)
    /\ UNCHANGED <<active_sessions, checkpoint_dir, clock, uuids>>
    /\ TaskFrame

\* complete_session: self.save_session(session)
t_archive(id) ==
    /\ tasks[id].pc = "archive"
    /\ files' = save_session(files, tasks[id].session[1])
    /\ GoesOn(id, tasks[id].op, tasks[id].arg, "unregister", tasks[id].session)
    /\ UNCHANGED <<active_sessions, checkpoint_dir, clock, uuids>>
    /\ TaskFrame

\* complete_session: del self.active_sessions[session_id]; return True
t_unregister(id) ==
    /\ tasks[id].pc = "unregister"
    /\ active_sessions' = Unregister(active_sessions, id)
    /\ IF tasks[id].op = "add_turn"
       THEN GoesOn(id, tasks[id].op, tasks[id].arg, "save", tasks[id].session)
       ELSE Returns(id, tasks[id].op, tasks[id].arg, "True")
    /\ UNCHANGED <<files, checkpoint_dir, clock, uuids>>
    /\ TaskFrame

\* the save_session that ends create_session and add_turn
t_save(id) ==
    /\ tasks[id].pc = "save"
    /\ files' = save_session(files, tasks[id].session[1])
    /\ Returns(id, tasks[id].op, tasks[id].arg,
               IF tasks[id].op = "add_turn" THEN "True" ELSE "session")
    /\ UNCHANGED <<active_sessions, checkpoint_dir, clock, uuids>>
    /\ TaskFrame

\* load_session: the file is looked for, read and parsed (lines 174-195)
t_load_session(id) ==
    /\ tasks[id].pc = "idle"
    /\ LET r == load_session_on([active |-> EmptyMap, fs |-> files, trans |-> <<>>], id)
       IN  IF r.ret # "session"
           THEN Returns(id, "load_session", EmptyMap, r.ret)
           ELSE GoesOn(id, "load_session", EmptyMap, "register", r.session)
    /\ UNCHANGED <<active_sessions, files, checkpoint_dir, clock, uuids>>
    /\ TaskFrame

\* load_session: lines 197-200
t_register(id) ==
    /\ tasks[id].pc = "register"
    /\ active_sessions' = IF RegistersOnLoad(tasks[id].session[1])
                          THEN Put(active_sessions, id, tasks[id].session[1])
                          ELSE active_sessions
    /\ Returns(id, tasks[id].op, tasks[id].arg, "session")
    /\ UNCHANGED <<files, checkpoint_dir, clock, uuids>>
    /\ TaskFrame

\* create_checkpoint of the registered session of the task
t_create_checkpoint(id, args, now) ==
    /\ tasks[id].pc = "idle"
    /\ id \in DOMAIN active_sessions
    /\ uuids < TaskCheckpoints
    /\ LET arg == args @@ [uuid |-> Uuid(uuids + 1), now |-> now]
           r == create_checkpoint_on(checkpoint_dir, WithParticipants(active_sessions[id]),
                                     arg.checkpoint_type, arg.quality_snapshot,
                                     arg.metadata, arg.uuid, arg.now)
       IN  /\ checkpoint_dir' = r.dir
           /\ Returns(id, "create_checkpoint", arg, r.exc)
    /\ clock' = now
    /\ uuids' = uuids + 1
    /\ UNCHANGED <<active_sessions, files>>
    /\ TaskFrame

\* a step of the task of one session
TaskStep(id) ==
    \/ \E max_turns \in TaskMaxTurns : t_create_session(id, max_turns)
    \/ \E agent_id \in TaskAgents, message \in Messages, response_time \in ResponseTimes :
          t_add_turn(id, agent_id, message, response_time)
    \/ t_advance(id)
    \/ t_remove(id)
    \/ t_archive(id)
    \/ t_unregister(id)
    \/ t_save(id)
    \/ t_load_session(id)
    \/ t_register(id)
    \/ \E args \in TaskCreateArgs, now \in Readings : t_create_checkpoint(id, args, now)

NextTasks == \E id \in TaskIds : TaskStep(id)

SpecTasks == Init /\ [][NextTasks]_vars

(***************************************************************************)
(* One session whose process may die between any two steps of a call.      *)
(* What was in memory is lost: the registry and the locals of the call;    *)
(* the discussions directory and the checkpoint directory stay as the last *)
(* step left them.  alone keeps what the calls that returned have written. *)
(***************************************************************************)
crash ==
    /\ \E id \in TaskIds : tasks[id].pc # "idle"
    /\ active_sessions' = EmptyMap
    /\ tasks' = [id \in TaskIds |-> [NotCalled EXCEPT !.created = tasks[id].created]]
    /\ alone' = [id \in TaskIds |-> [alone[id] EXCEPT !.active = EmptyMap]]
    /\ UNCHANGED <<files, checkpoint_dir, clock, uuids>>
    /\ TaskFrame

NextCrash ==
    \/ TaskStep(1)
    \/ t_complete_session(1)
    \/ crash

SpecCrash == Init /\ [][NextCrash]_vars

(***************************************************************************)
(* Properties of the session state machine.                                *)
(***************************************************************************)
ReturnedTrue == last.op = "add_turn" /\ last.ret = "True"

WellNumbered(session) ==
    /\ \A i \in 1..Len(session.turn_history) : session.turn_history[i].turn_number = i
    /\ session.current_turn = Len(session.turn_history)

\* C1: after every add_turn that returns true, the turn_number values of the
\* session's turn_history are 1, 2, ..., n in order and current_turn equals
\* len(turn_history); the same holds of every registered session.
C1_TurnNumbering ==
    /\ ReturnedTrue => WellNumbered(result[1])
    /\ \A id \in DOMAIN active_sessions : WellNumbered(active_sessions[id])

C1_Witness ==
    /\ ReturnedTrue
    /\ Len(result[1].turn_history) = 2
    /\ result[1].turn_history[2].turn_number = 2

\* C2: an add_turn that returns true leaves the session COMPLETED when it is
\* the max_turns-th turn and not COMPLETED when it is an earlier one; once a
\* session is completed every add_turn on its id returns false and changes
\* neither the registry nor the files, load_session or not.
C2_CompletedByTurn ==
    ReturnedTrue =>
        /\ result[1].current_turn = result[1].max_turns => result[1].status = "COMPLETED"
        /\ result[1].current_turn < result[1].max_turns => result[1].status # "COMPLETED"

C2_RejectedAfter ==
    \A id \in SessionIds :
        (hist[id].completed /\ last'.op = "add_turn" /\ last'.id = id) =>
            /\ last'.ret = "False"
            /\ UNCHANGED <<active_sessions, files, hist>>

C2_Completion == [](C2_CompletedByTurn) /\ [][C2_RejectedAfter]_vars

C2_Witness ==
    \E id \in SessionIds :
        /\ hist[id].completed /\ hist[id].loaded_after
        /\ Len(hist[id].accepted) = 2
        /\ id \in DOMAIN files.completed
        /\ ParseSession(files.completed[id]).session[1].max_turns = 2
        /\ last.op = "add_turn" /\ last.id = id /\ last.ret = "False"

\* C3: add_turn on an id that is not registered, or whose session is COMPLETED,
\* PAUSED or ERROR, returns false and leaves the registry (with the session
\* objects in it) and the stored files as they were.
Rejecting == {"COMPLETED", "PAUSED", "ERROR"}

C3_RejectStep ==
    \A id \in SessionIds :
        ( /\ last'.op = "add_turn" /\ last'.id = id
          /\ \/ id \notin DOMAIN active_sessions
             \/ active_sessions[id].status \in Rejecting ) =>
            /\ last'.ret = "False"
            /\ UNCHANGED <<active_sessions, files>>

C3_RejectsSilently == [][C3_RejectStep]_vars

C3_Witness ==
    /\ last.op = "add_turn" /\ last.ret = "False"
    /\ result # <<>>
    /\ result[1].status = "PAUSED"
    /\ last.id \in DOMAIN active_sessions
    /\ active_sessions[last.id] = result[1]


\* C4: every status change made by create_session, add_turn, complete_session
\* and load_session is PENDING->ACTIVE or ACTIVE->COMPLETED (so none takes a
\* session from PENDING straight to COMPLETED, and none changes the status of
\* a COMPLETED, PAUSED or ERROR session).
ComponentOps == {"create_session", "add_turn", "complete_session", "load_session"}

AllowedChanges == {<<"PENDING", "ACTIVE">>, <<"ACTIVE", "COMPLETED">>}

C4_OnlyForwardChanges ==
    last.op \in ComponentOps =>
        \A i \in 1..Len(last.trans) :
            <<last.trans[i][2], last.trans[i][3]>> \in AllowedChanges

\* C5: between operations no session id has a file in both sessions/ and
\* completed/; a file in sessions/ holds a status other than COMPLETED and a
\* file in completed/ holds COMPLETED; a registered session that is not
\* COMPLETED has its file in sessions/, a completed one has it in completed/.
StoredStatus(file) == ParseSession(file).session[1].status

C5_DisjointStores ==
    \A id \in SessionIds :
        /\ ~(id \in DOMAIN files.sessions /\ id \in DOMAIN files.completed)
        /\ id \in DOMAIN files.sessions => StoredStatus(files.sessions[id]) # "COMPLETED"
        /\ id \in DOMAIN files.completed => StoredStatus(files.completed[id]) = "COMPLETED"
        /\ (id \in DOMAIN active_sessions /\ active_sessions[id].status # "COMPLETED")
              => id \in DOMAIN files.sessions
        /\ hist[id].completed <=> id \in DOMAIN files.completed
        /\ (hist[id].created /\ ~hist[id].completed) <=> id \in DOMAIN files.sessions

C5_Witness ==
    \E id \in SessionIds :
        /\ hist[id].completed
        /\ Len(hist[id].accepted) = 2
        /\ id \in DOMAIN files.completed
        /\ id \notin DOMAIN files.sessions

\* C6: after create_session and after every add_turn that returns true the
\* file of the session is the dump of the session object; and at any moment a
\* new manager's load_session gives, for every created session, a session whose
\* turn_history is exactly the turns whose add_turn returned true (and, right
\* after such a call, the very session the call left).
FreshManager == [active |-> EmptyMap, fs |-> files, trans |-> <<>>]

C6_StoredIsMemory ==
    /\ (last.op = "create_session" \/ ReturnedTrue) =>
          /\ last.id \in DOMAIN files[SaveDir(result[1])]
          /\ files[SaveDir(result[1])][last.id] = JsonFile(SessionDict(result[1]))
          /\ load_session_on(FreshManager, last.id).session = result
    /\ \A id \in SessionIds :
          hist[id].created =>
              LET r == load_session_on(FreshManager, id)
              IN  /\ r.ret = "session"
                  /\ r.session[1].turn_history = hist[id].accepted
                  /\ r.session[1].current_turn = Len(hist[id].accepted)

C6_Witness ==
    /\ last.op = "load_session" /\ last.ret = "session" /\ ~last.known
    /\ result[1].status = "ACTIVE"
    /\ Len(result[1].turn_history) = 1
    /\ result[1].turn_history = hist[last.id].accepted
    /\ active_sessions[last.id] = result[1]


\* C7: load_session returns None, and lets no exception out, whenever the file
\* it finds is a bad record (no JSON, no status key, an unknown status, a
\* session or turn object with a field missing or a field too many) and when
\* there is no file at all.
FileFound(id) ==
    IF id \in DOMAIN files.sessions THEN <<files.sessions[id]>>
    ELSE IF id \in DOMAIN files.completed THEN <<files.completed[id]>>
    ELSE <<>>

BadRecord(id) ==
    \/ FileFound(id) = <<>>
    \/ FileFound(id)[1].kind = "text"
    \/ FileFound(id)[1].kind = "object" /\ ~Intact(FileFound(id)[1])

C7_BadRecordIsAbsent ==
    (last.op = "load_session" /\ BadRecord(last.id)) => last.ret = "None"


\* the session objects there are: registered, handed back by the last call, stored
SessionsAbout ==
    {active_sessions[id] : id \in DOMAIN active_sessions}
        \cup {result[i] : i \in DOMAIN result}
        \cup {ParseSession(files[dir][id]).session[1] :
                 <<dir, id>> \in UNION {{<<d, i>> : i \in DOMAIN files[d]} : d \in DOMAIN files}}

\* C26: in every state, a session whose status is COMPLETED (in the registry,
\* handed back by a call or stored) has current_turn = max_turns, whichever
\* operation completed it, complete_session called directly included.
C26_CompletedOnlyAtBudget ==
    \A session \in SessionsAbout :
        session.status = "COMPLETED" => session.current_turn = session.max_turns

\* C27: create_session hands back a session with status PENDING, no turn and
\* current_turn = 0 that is registered and whose file is in sessions/; and in
\* every state a session (registered, handed back or stored) has status
\* PENDING exactly when its turn_history is empty.
C27_PendingIffNoTurns ==
    /\ last.op = "create_session" =>
          /\ result[1].status = "PENDING"
          /\ result[1].turn_history = <<>>
          /\ result[1].current_turn = 0
          /\ last.id \in DOMAIN active_sessions /\ active_sessions[last.id] = result[1]
          /\ last.id \in DOMAIN files.sessions
          /\ files.sessions[last.id] = JsonFile(SessionDict(result[1]))
    /\ \A session \in SessionsAbout :
          session.status = "PENDING" <=> session.turn_history = <<>>

C28_LoadStep ==
    last'.op = "load_session" =>
        IF last'.ret = "session" /\ result'[1].status \in {"PENDING", "ACTIVE"}
        THEN active_sessions' = Put(active_sessions, last'.id, result'[1])
        ELSE active_sessions' = active_sessions

C28_AbsentOnceCompleted ==
    \A id \in SessionIds : hist[id].completed => id \notin DOMAIN active_sessions

\* C28: load_session registers the session it loaded exactly when its stored
\* status is PENDING or ACTIVE; a COMPLETED, PAUSED or ERROR session is handed
\* back and the registry stays as it was; so a session that completed is not
\* in the registry (get_session gives None) before and after any load.
C28_RegistersLiveOnly == [](C28_AbsentOnceCompleted) /\ [][C28_LoadStep]_vars

C28_Witness ==
    /\ last.op = "load_session" /\ last.ret = "session"
    /\ result[1].status = "COMPLETED"
    /\ Len(result[1].turn_history) = 2
    /\ hist[last.id].completed /\ hist[last.id].loaded_after
    /\ last.id \notin DOMAIN active_sessions

\* C29: a live session that a manager not holding it has loaded from its file
\* has exactly the turns that were accepted before, in their order; every
\* add_turn on it that returns true keeps those n turns as they are, appends
\* one turn numbered n+1 and leaves the session COMPLETED if current_turn has
\* reached max_turns and ACTIVE if it has not.
Resumed(id) == hist[id].resumed /\ id \in DOMAIN active_sessions

C29_HistoryKept ==
    \A id \in SessionIds :
        Resumed(id) =>
            /\ active_sessions[id].turn_history = hist[id].accepted
            /\ active_sessions[id].current_turn = Len(hist[id].accepted)

C29_ResumedStep ==
    \A id \in SessionIds :
        (Resumed(id) /\ last'.op = "add_turn" /\ last'.id = id /\ last'.ret = "True") =>
            LET before == active_sessions[id]
                after == result'[1]
                n == Len(before.turn_history)
            IN  /\ Len(after.turn_history) = n + 1
                /\ SubSeq(after.turn_history, 1, n) = before.turn_history
                /\ after.turn_history[n + 1].turn_number = n + 1
                /\ after.current_turn = n + 1
                /\ after.max_turns = before.max_turns
                /\ after.status = IF after.current_turn >= after.max_turns
                                  THEN "COMPLETED" ELSE "ACTIVE"

C29_ResumeKeepsSequence == [](C29_HistoryKept) /\ [][C29_ResumedStep]_vars

C29_Witness ==
    /\ ReturnedTrue
    /\ hist[last.id].resumed
    /\ result[1].max_turns = 2
    /\ result[1].status = "COMPLETED"
    /\ result[1].turn_history = hist[last.id].accepted
    /\ Len(result[1].turn_history) = 2

\* C37: in every state, whatever max_turns create_session was given (0 and 1
\* included), a session (registered, handed back or stored) has at most
\* max_turns turns in its turn_history.
C37_WithinBudget ==
    \A session \in SessionsAbout : Len(session.turn_history) <= session.max_turns

\* C39: when save_session raises a storage error during add_turn, the caller
\* gets that error, the registry holds the session as it was before the call
\* (no turn appended, current_turn and status as before) and the file of the
\* session is still the record of the session in memory.
C39_FailStep ==
    last'.ret = "OSError" =>
        /\ last'.op = "add_turn"
        /\ active_sessions' = active_sessions
        /\ last'.id \in DOMAIN files'.sessions
        /\ files'.sessions[last'.id] = JsonFile(SessionDict(active_sessions'[last'.id]))

C39_FailedSaveLeavesSession == [][C39_FailStep]_vars

\* C40: when two add_turn calls on one registered session have run as
\* interleaved threads, the turns of the session carry the numbers 1, 2, ...
\* in their order, current_turn is the length of turn_history and the
\* session holds no more turns than max_turns.
BothReturned == \A t \in Threads : threaded.local[t].pc = "done"

C40_ThreadsKeepSequence ==
    BothReturned =>
        /\ \A i \in 1..Len(Object.turn_history) : Object.turn_history[i].turn_number = i
        /\ Object.current_turn = Len(Object.turn_history)
        /\ Len(Object.turn_history) <= Object.max_turns

\* C33: in the debate loop, a turn whose generation call ended with its
\* retries exhausted appends no turn to the session, and the emergency
\* checkpoint is called for the session.
C33_ExhaustedStep ==
    (debate'.turn = debate.turn + 1 /\ debate'.outcome = "RetryError") =>
        /\ debate'.session = debate.session
        /\ active_sessions' = active_sessions
        /\ \E i \in 1..Len(debate'.calls) : debate'.calls[i].op = "save_emergency_checkpoint"

C33_ExhaustedTurnIsLeftOut == [][C33_ExhaustedStep]_vars

(***************************************************************************)
(* Properties of the retry wrapper.                                        *)
(***************************************************************************)
Indices(ev) == {i \in 1..Len(log) : log[i].ev = ev}

Count(ev) == Cardinality(Indices(ev))

Finished == pc = "done" /\ outcome # <<>>

\* every call of the operation so far raised an exception of a listed kind
AlwaysTransient ==
    /\ Count("return") = 0
    /\ \A i \in Indices("fail") : log[i].exc.type \in Listed

ObserverRaised == Finished /\ outcome[1].exc.type = "ObserverError"

Exhausted ==
    /\ Count("call") = wrapper.config.max_attempts
    /\ outcome[1].kind = "RetryError"
    /\ \E i \in Indices("fail") :
          /\ log[i].n = Count("call")
          /\ outcome[1].exc = log[i].exc

C9_UnlistedPropagates ==
    \A i \in Indices("fail") :
        log[i].exc.type \notin Listed =>
            /\ i = Len(log)
            /\ Finished
            /\ outcome[1] = [kind |-> "raise", value |-> "", exc |-> log[i].exc]
            /\ \A j \in Indices("on_retry") \cup Indices("sleep") : log[j].n < log[i].n

C9_Witness ==
    /\ Finished
    /\ outcome[1].kind = "raise"
    /\ outcome[1].exc.type = "KeyError"
    /\ outcome[1].exc.at = 2
    /\ wrapper.on_retry
    /\ Count("on_retry") = 1

\* C10: in one call of the wrapper, a failed attempt n that is retried is
\* followed, in this order, by on_retry(that exception, n), the sleep of the
\* backoff delay of n, and the call of attempt n + 1; the attempt numbers the
\* observer gets are 1, 2, 3, ... in order.
BackoffDelays(n) ==
    {calculate_backoff_delay(n, wrapper.config, factor) : factor \in JitterFactors}

C10_RetryOrder ==
    /\ \A i \in Indices("call") :
          log[i].n > 1 =>
              LET k == IF wrapper.on_retry THEN 1 ELSE 0
              IN  /\ i - 2 - k >= 1
                  /\ log[i - 2 - k].ev = "fail" /\ log[i - 2 - k].n = log[i].n - 1
                  /\ wrapper.on_retry =>
                        /\ log[i - 2].ev = "on_retry"
                        /\ log[i - 2].n = log[i].n - 1
                        /\ log[i - 2].exc = log[i - 3].exc
                  /\ log[i - 1].ev = "sleep" /\ log[i - 1].n = log[i].n - 1
                  /\ log[i - 1].delay \in BackoffDelays(log[i].n - 1)
    /\ \A i \in Indices("on_retry") :
          log[i].n = Cardinality({j \in Indices("on_retry") : j <= i})

C10_Witness ==
    /\ wrapper.on_retry
    /\ Count("call") = 3
    /\ Count("on_retry") = 2
    /\ Count("sleep") = 2
    /\ log[Len(log)].ev = "fail" /\ log[Len(log)].n = 3

\* C30: when the operation returns on attempt k, after raising listed
\* exceptions on the attempts 1..k-1, then k <= max_attempts, the wrapper ends
\* by returning the value of that attempt and raises nothing, the operation
\* was called exactly k times (attempts 1, ..., k), the wrapper slept exactly
\* k-1 times and the observer, if there is one, was called exactly k-1 times.
C30_ReturnsOnAttemptK ==
    Count("return") >= 1 =>
        LET k == Count("call")
            final == log[Len(log)]
        IN  /\ Count("return") = 1
            /\ final.ev = "return" /\ final.n = k
            /\ k >= 1 /\ k <= wrapper.config.max_attempts
            /\ {log[i].n : i \in Indices("call")} = 1..k
            /\ Count("fail") = k - 1
            /\ \A i \in Indices("fail") : log[i].exc.type \in Listed /\ log[i].n < k
            /\ Count("sleep") = k - 1
            /\ Count("on_retry") = IF wrapper.on_retry THEN k - 1 ELSE 0
            /\ Finished
            /\ outcome[1] = [kind |-> "return", value |-> final.value, exc |-> NoExc]

C30_Witness ==
    /\ Finished
    /\ outcome[1].kind = "return" /\ outcome[1].value = "text"
    /\ wrapper.on_retry
    /\ wrapper.config.max_attempts = 3
    /\ Count("call") = 3
    /\ Count("on_retry") = 2
    /\ Count("sleep") = 2
    /\ log[Len(log)].ev = "return" /\ log[Len(log)].n = 3

Running == pc \in {"attempt", "caught", "notified"}

WithinAttempts == Finished => Count("call") <= wrapper.config.max_attempts

ReturnedValue == outcome[1].kind = "return" /\ Count("return") = 1

RetriesExhausted == outcome[1].kind = "RetryError"

RaisedUnlisted ==
    /\ outcome[1].kind = "raise"
    /\ outcome[1].exc.type \in ErrorTypes \ Listed
    /\ log[Len(log)].ev = "fail" /\ log[Len(log)].exc = outcome[1].exc

DelaysCapped ==
    \A i \in DOMAIN schedule.delays : schedule.delays[i] <= schedule.config.max_delay

DelaysNonDecreasing ==
    \A i \in 1..(Len(schedule.delays) - 1) : schedule.delays[i] <= schedule.delays[i + 1]

DelaysPlateau ==
    \A i \in 1..(Len(schedule.delays) - 1) :
        schedule.delays[i] = schedule.config.max_delay
            => schedule.delays[i + 1] = schedule.config.max_delay

CountsFromOne(calls) == \A k \in DOMAIN calls : calls[k] = k

\* C12: each call of a wrapped function has its own attempt counter: whatever
\* the other call has done, its attempts are numbered 1, 2, ... with no gap,
\* there are at most max_attempts of them, and a call that ended in
\* RetryError with max_attempts >= 1 made exactly max_attempts.
C12_OwnAttemptCounter ==
    \A i \in Invocations :
        LET inv == invocations[i]
        IN  /\ CountsFromOne(inv.calls)
            /\ Len(inv.calls) <= Max(decorated.config.max_attempts, 0)
            /\ inv.pc = "attempt" => inv.attempt = Len(inv.calls) + 1
            /\ inv.pc = "sleeping" => inv.attempt = Len(inv.calls)
            /\ (inv.outcome = "RetryError" /\ decorated.config.max_attempts >= 1)
                  => Len(inv.calls) = decorated.config.max_attempts

C12_Witness ==
    /\ decorated.config.max_attempts = 3
    /\ invocations["first"].outcome = "RetryError"
    /\ invocations["first"].calls = <<1, 2, 3>>
    /\ invocations["second"].pc = "attempt"
    /\ invocations["second"].attempt = 2

(***************************************************************************)
(* Properties of the checkpoint store.                                     *)
(***************************************************************************)
Makes == {"create_checkpoint", "save_emergency_checkpoint"}

\* the last call was to make a checkpoint of a session object
MadeOfSession == ck_last.op \in Makes /\ "participants" \in DOMAIN ck_last.args

\* the checkpoints in the store, as the files hold them
Stored ==
    {from_dict(checkpoint_dir[subdir][filename].doc) :
        <<subdir, filename>> \in UNION {{<<d, f>> : f \in DOMAIN checkpoint_dir[d]} :
                                            d \in DOMAIN checkpoint_dir}}

YieldsInvalid(args) ==
    \/ args.participants = 0
    \/ args.session_id = <<>>
    \/ args.current_turn < 0

\* C13: making a checkpoint of a session without participants, with an empty
\* session_id or with a negative current_turn fails with ValueError and writes
\* no file (none carries the id drawn for that checkpoint); every checkpoint
\* in the store has non-empty ids, a non-empty participants_state and
\* turn_number >= 0.
C13_InvalidNeverStored ==
    /\ (MadeOfSession /\ YieldsInvalid(ck_last.args))
          => /\ ck_last.exc = "ValueError"
             /\ ck_last.ret = None
             /\ \A c \in Stored : c.checkpoint_id # Uuid(uuids)
    /\ (MadeOfSession /\ ~YieldsInvalid(ck_last.args)) => ck_last.exc = "none"
    /\ Cardinality(Stored) <= Len(persisted)
    /\ \A c \in Stored :
          /\ c.checkpoint_id # <<>>
          /\ c.session_id # <<>>
          /\ DOMAIN c.participants_state # {}
          /\ c.turn_number >= 0

C13_Witness ==
    /\ MadeOfSession
    /\ ck_last.args.participants = 0
    /\ ck_last.exc = "ValueError"
    /\ Stored # {}

IsStored(checkpoint) ==
    LET subdir == TypeValue(checkpoint.checkpoint_type)
        filename == Filename(checkpoint.session_id, checkpoint.checkpoint_id)
    IN  filename \in DOMAIN checkpoint_dir[subdir]

\* C14: every checkpoint c that create returned satisfies from_dict(to_dict(c)) = c,
\* all nine fields alike; right after create returned c, load(c.checkpoint_id)
\* returns a checkpoint equal to c, and so does every later load of a stored c.
C14_RoundTrip ==
    /\ \A i \in DOMAIN persisted : from_dict(to_dict(persisted[i])) = persisted[i]
    /\ (MadeOfSession /\ ck_last.exc = "none")
          => \A listing \in Listings(checkpoint_dir) :
                load_checkpoint_on(checkpoint_dir, listing, ck_last.ret[1].checkpoint_id)
                    = ck_last.ret
    /\ ck_last.op = "load_checkpoint"
          => \A i \in DOMAIN persisted :
                (persisted[i].checkpoint_id = ck_last.args.checkpoint_id /\ IsStored(persisted[i]))
                    => ck_last.ret = <<persisted[i]>>

C14_Witness ==
    /\ ck_last.op = "load_checkpoint"
    /\ persisted # <<>>
    /\ ck_last.args.checkpoint_id = persisted[Len(persisted)].checkpoint_id
    /\ ck_last.ret = <<persisted[Len(persisted)]>>
    /\ ck_last.ret[1].quality_snapshot # None
    /\ ck_last.ret[1].metadata # EmptyMap

\* C15: load(checkpoint_id) returns a stored checkpoint whose checkpoint_id is
\* the argument when there is one, and None otherwise; never a checkpoint
\* with another checkpoint_id.
C15_LoadByIdOnly ==
    ck_last.op = "load_checkpoint"
        => LET named == {c \in Stored : c.checkpoint_id = ck_last.args.checkpoint_id}
           IN  IF named = {} THEN ck_last.ret = None
               ELSE ck_last.ret # None /\ ck_last.ret[1] \in named

\* C16: list(session_id, type) returns exactly the stored checkpoints whose
\* session_id is the argument (of the given type when one is given), each
\* once, by ascending timestamp, and none of another session.
C16_ListOfSession ==
    ck_last.op = "get_session_checkpoints"
        => LET session_id == ck_last.args.session_id
               type == ck_last.args.checkpoint_type
               wanted == {c \in Stored : /\ c.session_id = session_id
                                         /\ type # None => c.checkpoint_type = type[1]}
               ret == ck_last.ret
           IN  /\ {ret[i] : i \in DOMAIN ret} = wanted
               /\ Len(ret) = Cardinality(wanted)
               /\ \A i, j \in DOMAIN ret : i < j => ret[i].timestamp <= ret[j].timestamp

\* the checkpoint of a session made last among those still stored
Newest(session_id) ==
    LET mine == {i \in DOMAIN persisted : /\ persisted[i].session_id = session_id
                                          /\ IsStored(persisted[i])}
    IN  IF mine = {} THEN None
        ELSE <<persisted[CHOOSE i \in mine : \A j \in mine : j <= i]>>

\* C17: latest(session_id) returns the stored checkpoint of that session that
\* was created last, whatever its type and whatever the timestamps, and None
\* when the session has none.
C17_LatestIsNewest ==
    ck_last.op = "get_latest_checkpoint" => ck_last.ret = Newest(ck_last.args.session_id)

WithoutSession(call) ==
    call.op = "save_emergency_checkpoint" /\ "session" \in DOMAIN call.args

\* C18: emergency(session_id, error) without a session object returns the
\* checkpoint of that session created last, or None when the session has
\* none, and leaves every checkpoint file as it is.
C18_EmergencyWithoutSession ==
    [][(WithoutSession(ck_last') /\ ck_last' # ck_last)
          => /\ checkpoint_dir' = checkpoint_dir
             /\ ck_last'.ret = Newest(ck_last'.args.session_id)]_vars

\* C19: emergency(session_id, error, session) with a session object (one that
\* yields a valid checkpoint) stores exactly one new checkpoint, of type
\* EMERGENCY, in the emergency subdirectory, with the session's turn number
\* and status and the error's type and message in its metadata, and that
\* checkpoint is then what latest(session_id) returns.
C19_EmergencyWithSession ==
    (MadeOfSession /\ ck_last.op = "save_emergency_checkpoint"
        /\ ~YieldsInvalid(ck_last.args))
        => /\ ck_last.exc = "none"
           /\ ck_last.ret # None
           /\ LET c == ck_last.ret[1]
                  args == ck_last.args
                  filename == Filename(c.session_id, c.checkpoint_id)
              IN  /\ c.checkpoint_type = "EMERGENCY"
                  /\ filename \in DOMAIN checkpoint_dir.emergency
                  /\ from_dict(checkpoint_dir.emergency[filename].doc) = c
                  /\ c = persisted[Len(persisted)]
                  /\ c.checkpoint_id = Uuid(uuids)
                  /\ c.turn_number = args.current_turn
                  /\ c.status = args.status
                  /\ c.metadata.error_type = args.error.type
                  /\ c.metadata.error_message = args.error.message
                  /\ \A listing \in Listings(checkpoint_dir) :
                        get_latest_checkpoint_on(checkpoint_dir, listing, args.session_id)
                            = <<c>>

\* C20: a checkpoint that create returned keeps its stored content: as long as
\* its file is there, load(checkpoint_id) returns a checkpoint equal to the
\* one created, whatever was created, loaded or removed since, and only
\* cleanup_old_checkpoints takes a checkpoint out of the store.
C20_StoredUnchanged ==
    \A i \in DOMAIN persisted :
        /\ persisted[i] \in Stored <=> IsStored(persisted[i])
        /\ \A listing \in Listings(checkpoint_dir) :
              load_checkpoint_on(checkpoint_dir, listing, persisted[i].checkpoint_id)
                  = IF persisted[i] \in Stored THEN <<persisted[i]>> ELSE None

C20_OnlyPruneRemoves ==
    \A i \in DOMAIN persisted :
        (persisted[i] \in Stored /\ persisted[i] \notin Stored')
            => ck_last'.op = "cleanup_old_checkpoints"

C20_Immutable == [](C20_StoredUnchanged) /\ [][C20_OnlyPruneRemoves]_vars

C20_Witness ==
    /\ Len(persisted) >= 2
    /\ persisted[1].session_id = persisted[2].session_id
    /\ persisted[1].turn_number < persisted[2].turn_number
    /\ ck_last.op = "load_checkpoint"
    /\ ck_last.args.checkpoint_id = persisted[1].checkpoint_id
    /\ ck_last.ret = <<persisted[1]>>

\* the checkpoints create returned whose file is in the store
Kept == {i \in DOMAIN persisted : IsStored(persisted[i])}

\* written more than days_to_keep days before a call made at the time now
WrittenBefore(checkpoint, days_to_keep, now) == checkpoint.timestamp < now - days_to_keep

C21_PruneStep ==
    ck_last'.op = "cleanup_old_checkpoints" =>
        LET days_to_keep == ck_last'.args.days_to_keep
            old == {i \in Kept : WrittenBefore(persisted[i], days_to_keep, clock')}
        IN  /\ Kept' = Kept \ old
            /\ ck_last'.ret = <<[removed_count |-> Cardinality(old)]>>
            /\ \A i \in Kept \ old :
                  LET c == persisted[i]
                      subdir == TypeValue(c.checkpoint_type)
                      filename == Filename(c.session_id, c.checkpoint_id)
                  IN  /\ checkpoint_dir'[subdir][filename] = checkpoint_dir[subdir][filename]
                      /\ \A listing \in Listings(checkpoint_dir') :
                            load_checkpoint_on(checkpoint_dir', listing, c.checkpoint_id) = <<c>>
            /\ Cardinality(Stored') = Cardinality(Kept')

\* C21: cleanup_old_checkpoints(days_to_keep) removes, in all four
\* subdirectories, exactly the checkpoints written more than days_to_keep days
\* before the call, leaves every other checkpoint loadable and its file
\* unchanged, and returns the number of checkpoints it removed.
C21_PruneExactlyOld == [][C21_PruneStep]_vars

C21_Witness ==
    /\ ck_last.op = "cleanup_old_checkpoints"
    /\ ck_last.args.days_to_keep = 1
    /\ ck_last.ret = <<[removed_count |-> 1]>>
    /\ Len(persisted) = 2
    /\ persisted[1].checkpoint_type = "EMERGENCY"
    /\ Kept = {2}

(***************************************************************************)
(* Properties of two sessions worked on at the same time.                  *)
(***************************************************************************)
Entry(map, key) == IF key \in DOMAIN map THEN <<map[key]>> ELSE <<>>

\* what a manager holds of a session: the registered object and the two files
SessionView(active, fs, id) ==
    [registered |-> Entry(active, id), live |-> Entry(fs.sessions, id),
     archived |-> Entry(fs.completed, id)]

StoredIn(dir) ==
    {from_dict(dir[subdir][filename].doc) :
        <<subdir, filename>> \in UNION {{<<d, f>> : f \in DOMAIN dir[d]} : d \in DOMAIN dir}}

CheckpointsOf(dir, id) == {c \in StoredIn(dir) : c.session_id = IdText(id)}

Elements(seq) == {seq[i] : i \in DOMAIN seq}

C22_SameAsAlone ==
    \A id \in TaskIds :
        tasks[id].pc = "idle" =>
            /\ SessionView(active_sessions, files, id)
                  = SessionView(alone[id].active, alone[id].fs, id)
            /\ tasks[id].ret = alone[id].ret
            /\ CheckpointsOf(checkpoint_dir, id) = StoredIn(alone[id].dir)
            /\ \A listing \in Listings(checkpoint_dir) :
                  Elements(get_session_checkpoints_on(checkpoint_dir, listing,
                                                      IdText(id), None))
                      = StoredIn(alone[id].dir)

C22_OthersUntouched ==
    \A id \in TaskIds :
        (\E other \in TaskIds \ {id} : TaskStep(other)) =>
            /\ SessionView(active_sessions', files', id)
                  = SessionView(active_sessions, files, id)
            /\ CheckpointsOf(checkpoint_dir', id) = CheckpointsOf(checkpoint_dir, id)
            /\ alone'[id] = alone[id]
            /\ tasks'[id] = tasks[id]

\* C22: with two sessions worked on by two tasks whose calls (create_session,
\* add_turn, load_session, create_checkpoint) interleave step by step,
\* whenever a task is between calls its session's registered object, stored
\* files, last return value and checkpoints are what its calls give when run
\* alone, and a step of one task changes nothing of the other session.
C22_SessionsIndependent == [](C22_SameAsAlone) /\ [][C22_OthersUntouched]_vars

C22_Witness ==
    /\ tasks[1].pc = "archive"
    /\ tasks[2].pc = "save"
    /\ tasks[2].op = "add_turn"
    /\ 2 \in DOMAIN active_sessions
    /\ Len(active_sessions[2].turn_history) = 1
    /\ CheckpointsOf(checkpoint_dir, 1) # {}
    /\ CheckpointsOf(checkpoint_dir, 2) # {}

(***************************************************************************)
(* Properties of a completion that may be cut short.                       *)
(***************************************************************************)
\* the record of the session, as a new manager loads it from the directory fs
Recovered(fs, id) ==
    load_session_on([active |-> EmptyMap, fs |-> fs, trans |-> <<>>], id)

\* a call that returned has written the record of the session
Acknowledged(id) ==
    id \in DOMAIN alone[id].fs.sessions \/ id \in DOMAIN alone[id].fs.completed

Completing == {"remove", "archive", "unregister"}

\* C25: at every step of a completion (and at every other step) the record
\* of a session that was stored is in sessions/ or in completed/, and a new
\* manager loads from it at least the turns of the calls that returned.
C25_RecordNeverMissing ==
    \A id \in TaskIds :
        Acknowledged(id) =>
            /\ id \in DOMAIN files.sessions \/ id \in DOMAIN files.completed
            /\ Recovered(files, id).ret = "session"
            /\ Len(Recovered(files, id).session[1].turn_history)
                  >= Len(Recovered(alone[id].fs, id).session[1].turn_history)

(***************************************************************************)
(* The QualityCalculator (src/core/quality_calculator.py).  A text is the  *)
(* sequence of the words re.findall(r'\w+') finds in it; scores are in     *)
(* thousandths (1.0 is 1000), quotients rounded down; response times are   *)
(* whole seconds.  Of TurnMetrics the four scores and the fields copied    *)
(* from the turn are modelled; the counts of references and of new         *)
(* arguments and the linguistic features enter no score.                   *)
(***************************************************************************)
CommonWords ==
    {"the", "is", "are", "was", "were", "been", "be", "have", "has", "had",
     "do", "does", "did", "will", "would", "should", "could", "may", "might"}

\* str.lower on the words of the model
lower(word) ==
    CASE word = "AI"     -> "ai"
      [] word = "Debate" -> "debate"
      [] word = "The"    -> "the"
      [] OTHER           -> word

extract_keywords(text) ==
    LET words == [i \in DOMAIN text |-> lower(text[i])]
        IsKeyword(w) == Len(w) > 2 /\ w \notin CommonWords
    IN  SelectSeq(words, IsKeyword)

RECURSIVE KeywordsOf(_)
KeywordsOf(turns) ==
    IF turns = <<>> THEN <<>>
    ELSE extract_keywords(Head(turns).message) \o KeywordsOf(Tail(turns))

History_with_the_turn(session, turn) ==
    LET UpTo(t) == t.turn_number <= turn.turn_number
    IN  SelectSeq(session.turn_history, UpTo)

\* the turns of the session before this one
History(session, turn) ==
    LET Earlier(t) == t.turn_number < turn.turn_number
    IN  SelectSeq(session.turn_history, Earlier)

Recent_last_two(history) == SubSeq(history, Max(1, Len(history) - 1), Len(history))

\* history[-3:]
Recent(history) == SubSeq(history, Max(1, Len(history) - 2), Len(history))

calculate_coherence(turn, history) ==
    IF history = <<>> THEN 1000
    ELSE LET recent == Recent(history)
             keywords_from_history == Elements(KeywordsOf(recent))
             current_words == Elements(extract_keywords(turn.message))
             common_words == keywords_from_history \cap current_words
         IN  IF keywords_from_history # {}
             THEN Min((Cardinality(common_words) * 2000)
                          \div Cardinality(keywords_from_history), 1000)
             ELSE 800

calculate_relevance(turn, topic) ==
    LET topic_words == extract_keywords(topic)
        turn_words == extract_keywords(turn.message)
        relevance_count ==
            Cardinality({i \in DOMAIN turn_words : turn_words[i] \in Elements(topic_words)})
    IN  IF topic_words = <<>> THEN 500
        ELSE Min((relevance_count * 1500) \div Len(topic_words), 1000)

calculate_diversity(turn, history) ==
    LET SameAgent(t) == t.agent_id = turn.agent_id
        agent_history == SelectSeq(history, SameAgent)
        all_words == KeywordsOf(Append(agent_history, turn))
    IN  IF agent_history = <<>> THEN 1000
        ELSE IF all_words = <<>> THEN 500
        ELSE (Cardinality(Elements(all_words)) * 1000) \div Len(all_words)

RECURSIVE Sum(_)
Sum(numbers) == IF numbers = <<>> THEN 0 ELSE Head(numbers) + Sum(Tail(numbers))

\* statistics.pvariance: the same sum divided by n instead of n - 1
Variance_population(xs) ==
    LET n == Len(xs)
        squares == [i \in DOMAIN xs |-> xs[i] * xs[i]]
    IN  [num |-> n * Sum(squares) - Sum(xs) * Sum(xs), den |-> n * n]

\* statistics.variance(xs) = (n * sum of squares - square of the sum) / (n * (n - 1)),
\* kept as the pair of numerator and denominator
Variance(xs) ==
    LET n == Len(xs)
        squares == [i \in DOMAIN xs |-> xs[i] * xs[i]]
    IN  [num |-> n * Sum(squares) - Sum(xs) * Sum(xs), den |-> n * (n - 1)]

\* expected_min = 0.3 and expected_max = 5.0, in tenths
ExpectedMin == 3
ExpectedMax == 50

TooFewSamples_below_two(response_times) == Len(response_times) < 2

TooFewSamples(response_times) == Len(response_times) < 3

PositiveTimes(session) ==
    LET Positive(t) == t.response_time > 0
        timed == SelectSeq(session.turn_history, Positive)
    IN  [i \in DOMAIN timed |-> timed[i].response_time]

calculate_authenticity(turn, session) ==
    LET response_times == PositiveTimes(session)
    IN  IF TooFewSamples(response_times) THEN 800
        ELSE LET variance == Variance(response_times)
             IN  IF 10 * variance.num < ExpectedMin * variance.den THEN 300
                 ELSE IF 10 * variance.num > ExpectedMax * variance.den THEN 700
                 ELSE 1000

calculate_turn_metrics(turn, session, topic) ==
    LET history == History(session, turn)
    IN  [turn_number |-> turn.turn_number,
         coherence_score |-> calculate_coherence(turn, history),
         relevance_score |-> calculate_relevance(turn, topic),
         diversity_score |-> calculate_diversity(turn, history),
         authenticity_score |-> calculate_authenticity(turn, session),
         response_time |-> turn.response_time]

\* statistics.mean, kept as the pair of the sum and the count
Mean(numbers) == [num |-> Sum(numbers), den |-> Len(numbers)]

Below_or_equal(mean, threshold) == mean.num <= threshold * mean.den

Below(mean, threshold) == mean.num < threshold * mean.den

\* ALERT_THRESHOLDS, in thousandths
ALERT_THRESHOLDS ==
    [coherence_drop |-> 600, topic_drift |-> 700, repetition |-> 500, fake_detection |-> 400]

Zero == [num |-> 0, den |-> 1]

AllMetrics(session) ==
    [i \in DOMAIN session.turn_history |->
        calculate_turn_metrics(session.turn_history[i], session, session.topic)]

\* the alerts, by the metric they are about; engagement, overall_score and the
\* recommendations of the report take no part in them and are left out
calculate_session_quality(session) ==
    IF session.turn_history = <<>>
    THEN [coherence |-> Zero, relevance |-> Zero, diversity |-> Zero, authenticity |-> Zero,
          alerts |-> <<"No turns in session">>]
    ELSE
      LET all_metrics == AllMetrics(session)
          coherence == Mean([i \in DOMAIN all_metrics |-> all_metrics[i].coherence_score])
          relevance == Mean([i \in DOMAIN all_metrics |-> all_metrics[i].relevance_score])
          diversity == Mean([i \in DOMAIN all_metrics |-> all_metrics[i].diversity_score])
          authenticity == Mean([i \in DOMAIN all_metrics |-> all_metrics[i].authenticity_score])
          alerts ==
              (IF Below(coherence, ALERT_THRESHOLDS.coherence_drop)
               THEN <<"Low coherence">> ELSE <<>>)
              \o (IF Below(relevance, ALERT_THRESHOLDS.topic_drift)
                  THEN <<"Topic drift detected">> ELSE <<>>)
              \o (IF Below(diversity, ALERT_THRESHOLDS.repetition)
                  THEN <<"High repetition">> ELSE <<>>)
              \o (IF Below(authenticity, ALERT_THRESHOLDS.fake_detection)
                  THEN <<"Authenticity concern">> ELSE <<>>)
      IN  [coherence |-> coherence, relevance |-> relevance, diversity |-> diversity,
           authenticity |-> authenticity, alerts |-> alerts]

(***************************************************************************)
(* The calculator at work: a session gets its turns one by one, as         *)
(* add_turn appends them, and the metrics of all its turns are computed,   *)
(* and the report with the alerts, as calculate_session_quality does.      *)
(***************************************************************************)
QualityTopics == {NoTopic, <<"AI", "ethics", "Debate">>}
QualityMessages ==
    {<<"AI", "is">>, <<"The", "model">>, <<"Debate", "ethics">>, <<"ethics", "model", "ethics">>}
QualityTimes == {-1, 0, 1, 2, 3, 6}

InitReview ==
    /\ InitManager
    /\ InitWrapper
    /\ InitSchedule
    /\ InitInvocations
    /\ InitCheckpoints
    /\ InitTasks
    /\ InitOrchestration
    /\ quality \in {UnderReview(topic) : topic \in QualityTopics}

QualityFrame == UNCHANGED <<svars, rvars, bvars, ivars, cvars, tvars, ovars>>

\* one more turn of the session under review
q_add_turn(agent_id, message, response_time) ==
    /\ Len(quality.session.turn_history) < MaxQualityTurns
    /\ AcceptsTurns(quality.session)
    /\ LET active == [quality.session EXCEPT !.status = "ACTIVE"]
           turn == NewTurn(active, agent_id, message, response_time)
       IN  quality' = [session |-> AppendTurn(active, turn), metrics |-> <<>>, report |-> <<>>]
    /\ QualityFrame

\* calculate_session_quality: the metrics of every turn and the report
q_calculate ==
    /\ quality.report = <<>>
    /\ quality' = [quality EXCEPT !.metrics = AllMetrics(quality.session),
                                  !.report = <<calculate_session_quality(quality.session)>>]
    /\ QualityFrame

\* sessions whose turns differ in their text and their speaker
NextCoherence ==
    \/ \E agent_id \in Agents, message \in QualityMessages :
          q_add_turn(agent_id, message, DefaultResponseTime)
    \/ q_calculate

SpecCoherence == InitReview /\ [][NextCoherence]_vars

\* sessions whose turns differ in their response time
NextAuthenticity ==
    \/ \E message \in Messages, response_time \in QualityTimes :
          q_add_turn("A", <<message>>, response_time)
    \/ q_calculate

SpecAuthenticity == InitReview /\ [][NextAuthenticity]_vars

\* sessions of one agent whose turns differ in their text and their response time
ReportTimes == {1, 6}

NextReport ==
    \/ \E message \in QualityMessages, response_time \in ReportTimes :
          q_add_turn("A", message, response_time)
    \/ q_calculate

SpecReport == InitReview /\ [][NextReport]_vars

(***************************************************************************)
(* Checkpoints of a session as it grows: the session gets its turns one by *)
(* one, from either agent, and create_checkpoint is called on it in        *)
(* between.  The participants of the session are both agents, one of them, *)
(* one of them listed twice, or none.                                      *)
(***************************************************************************)
SnapshotParticipants ==
    {<<>>, <<Participant.B>>, BothParticipants, <<Participant.A, Participant.A>>}

SnapshotTurns ==
    {[message |-> "alpha", response_time |-> 1], [message |-> "beta", response_time |-> 3]}

Joined(participants) ==
    [UnderReview(NoTopic) EXCEPT !.session = @ @@ [participants |-> participants]]

InitSnapshot ==
    /\ InitManager
    /\ InitWrapper
    /\ InitSchedule
    /\ InitInvocations
    /\ InitCheckpoints
    /\ InitTasks
    /\ InitOrchestration
    /\ quality \in {Joined(participants) : participants \in SnapshotParticipants}

\* the session object as create_checkpoint gets it
Handed(session) == [session EXCEPT !.session_id = IdText(@)]

q_create_checkpoint(args, now) ==
    /\ uuids < MaxSnapshots
    /\ create_checkpoint(Handed(quality.session), args, now)

NextSnapshot ==
    \/ \E agent_id \in Agents, turn \in SnapshotTurns :
          q_add_turn(agent_id, turn.message, turn.response_time)
    \/ \E args \in TaskCreateArgs, now \in Readings : q_create_checkpoint(args, now)

SpecSnapshot == InitSnapshot /\ [][NextSnapshot]_vars

(***************************************************************************)
(* Properties of the quality scores.                                       *)
(***************************************************************************)
Reviewed == quality.metrics # <<>>

HasEarlierTurn(session, turn) ==
    \E i \in DOMAIN session.turn_history :
        session.turn_history[i].turn_number < turn.turn_number

\* C23: a turn that has no earlier turn in its session gets the coherence
\* score 1.0, whatever its message and the topic.
C23_FirstTurnCoherent ==
    Reviewed =>
        \A i \in DOMAIN quality.metrics :
            ~HasEarlierTurn(quality.session, quality.session.turn_history[i])
                => quality.metrics[i].coherence_score = 1000

C23_Witness ==
    /\ Reviewed
    /\ Len(quality.metrics) >= 2
    /\ quality.session.topic # NoTopic
    /\ extract_keywords(quality.session.turn_history[1].message) = <<>>
    /\ quality.metrics[1].coherence_score = 1000
    /\ quality.metrics[2].coherence_score < 1000

\* C24: in a session where fewer than 3 turns have a response_time above 0,
\* every turn gets the authenticity score 0.8, whatever the response times.
C24_AuthenticityDefault ==
    Reviewed =>
        (Cardinality({i \in DOMAIN quality.session.turn_history :
                          quality.session.turn_history[i].response_time > 0}) < 3
            => \A i \in DOMAIN quality.metrics : quality.metrics[i].authenticity_score = 800)

C24_Witness ==
    /\ Reviewed
    /\ Len(quality.metrics) = 4
    /\ quality.session.turn_history[1].response_time = 3
    /\ quality.session.turn_history[2].response_time = -1
    /\ quality.session.turn_history[3].response_time = 0
    /\ quality.session.turn_history[4].response_time = 3
    /\ \A i \in DOMAIN quality.metrics : quality.metrics[i].authenticity_score = 800

\* the sample variance by its definition: the squared distances from the mean,
\* summed and divided by n - 1; with mean = total / n this is the sum of
\* (n * x - total)^2 over n * n * (n - 1)
SampleVariance(xs) ==
    LET n == Len(xs)
        total == Sum(xs)
        distances == [i \in DOMAIN xs |-> (n * xs[i] - total) * (n * xs[i] - total)]
    IN  [num |-> Sum(distances), den |-> n * n * (n - 1)]

AuthenticityScores == {300, 700, 800, 1000}

\* C34: in a session with at least 3 turns whose response_time is above 0,
\* every turn gets the authenticity score that the sample variance v of those
\* response times gives: 0.3 when v < 0.3, 0.7 when v > 5.0, 1.0 when
\* 0.3 <= v <= 5.0; and every authenticity score is 0.3, 0.7, 0.8 or 1.0.
C34_AuthenticityByVariance ==
    Reviewed =>
        /\ \A i \in DOMAIN quality.metrics :
              quality.metrics[i].authenticity_score \in AuthenticityScores
        /\ Len(PositiveTimes(quality.session)) >= 3 =>
              LET v == SampleVariance(PositiveTimes(quality.session))
                  expected == IF 10 * v.num < 3 * v.den THEN 300
                              ELSE IF v.num > 5 * v.den THEN 700
                              ELSE 1000
              IN  \A i \in DOMAIN quality.metrics :
                      quality.metrics[i].authenticity_score = expected

C34_Witness ==
    /\ Reviewed
    /\ Len(quality.metrics) = 4
    /\ PositiveTimes(quality.session) = <<1, 6, 1>>
    /\ quality.session.turn_history[2].response_time = 0
    /\ \A i \in DOMAIN quality.metrics : quality.metrics[i].authenticity_score = 700

\* K_hist and K_turn of the i-th turn of the session under review
HistoryKeywords(i) ==
    UNION {Elements(extract_keywords(quality.session.turn_history[j].message)) :
              j \in {j \in 1..(i - 1) : j >= i - 3}}

TurnKeywords(i) == Elements(extract_keywords(quality.session.turn_history[i].message))

\* score, in thousandths, is min(2 * common / total, 1.0) cut to thousandths
IsScaledShare(score, common, total) ==
    IF 2 * common >= total THEN score = 1000
    ELSE score * total <= 2000 * common /\ 2000 * common < (score + 1) * total

\* C35: a turn that has earlier turns gets the coherence score
\* min(2 * |K_hist \cap K_turn| / |K_hist|, 1.0), K_hist being the keywords of
\* the (up to) 3 turns before it and K_turn its own, and 0.8 when K_hist is
\* empty; the score is above 0 when the turn shares a keyword with those
\* turns, and lies between 0 and 1.
C35_CoherenceShare ==
    Reviewed =>
        \A i \in DOMAIN quality.metrics :
            LET score == quality.metrics[i].coherence_score
                common == Cardinality(HistoryKeywords(i) \cap TurnKeywords(i))
                total == Cardinality(HistoryKeywords(i))
            IN  /\ score >= 0 /\ score <= 1000
                /\ i > 1 =>
                      /\ total = 0 => score = 800
                      /\ total > 0 => IsScaledShare(score, common, total)
                      /\ common >= 1 => score > 0

C35_Witness ==
    /\ Reviewed
    /\ Len(quality.metrics) = 4
    /\ Cardinality(HistoryKeywords(4)) = 3
    /\ Cardinality(HistoryKeywords(4) \cap TurnKeywords(4)) = 1
    /\ quality.metrics[4].coherence_score = 666
    /\ HistoryKeywords(2) = {}
    /\ quality.metrics[2].coherence_score = 800

Reported == quality.report # <<>> /\ quality.session.turn_history # <<>>

AlertOrder == <<"Low coherence", "Topic drift detected", "High repetition",
                "Authenticity concern">>

Rank(alert) == CHOOSE k \in DOMAIN AlertOrder : AlertOrder[k] = alert

\* the mean of the scores is below limit (in thousandths): their sum is below
\* limit times their number
MeanBelow(scores, limit) == Sum(scores) < limit * Len(scores)

TurnsBy(session, agent_id) ==
    {i \in DOMAIN session.turn_history : session.turn_history[i].agent_id = agent_id}

Latest(positions) == CHOOSE i \in positions : \A j \in positions : j <= i

\* C32: the checkpoint that create_checkpoint makes of a session has the
\* session's current_turn as turn_number and the session's status, and its
\* participants_state has one entry for each participant id and no other; the
\* entry of an agent counts the turns of the history with that agent_id and
\* has the message and response_time of the last of them, or the empty text
\* and 0 when there is none.
C32_SnapshotStep ==
    persisted' # persisted =>
        LET checkpoint == persisted'[Len(persisted')]
            session == quality.session
            ids == {session.participants[i].id : i \in DOMAIN session.participants}
        IN  /\ Len(persisted') = Len(persisted) + 1
            /\ ck_last'.ret = <<checkpoint>>
            /\ checkpoint.turn_number = session.current_turn
            /\ checkpoint.status = session.status
            /\ DOMAIN checkpoint.participants_state = ids
            /\ \A id \in ids :
                  LET state == asdict(checkpoint.participants_state[id])
                      own == TurnsBy(session, id)
                  IN  /\ state.agent_id = id
                      /\ state.turn_count = Cardinality(own)
                      /\ own = {} => state.last_response = "" /\ state.response_time = 0
                      /\ own # {} =>
                            /\ state.last_response = session.turn_history[Latest(own)].message
                            /\ state.response_time =
                                   session.turn_history[Latest(own)].response_time

C32_CheckpointOfSession == [][C32_SnapshotStep]_vars

C32_Witness ==
    /\ Len(persisted) = 1
    /\ persisted[1].turn_number = 3
    /\ persisted[1].status = "ACTIVE"
    /\ DOMAIN persisted[1].participants_state = {"A", "B"}
    /\ asdict(persisted[1].participants_state["A"]).turn_count = 2
    /\ asdict(persisted[1].participants_state["A"]).response_time = 3
    /\ asdict(persisted[1].participants_state["B"]).turn_count = 1
    /\ asdict(persisted[1].participants_state["B"]).last_response = "alpha"
    /\ quality.session.turn_history[1].agent_id = "A"
    /\ quality.session.turn_history[1].response_time = 1
    /\ Len(quality.session.turn_history) = 4

====
